---- MODULE Spec2Model ----
(***************************************************************************)
(* A model of the ProjectTrace analysis core: the collaboration graph      *)
(* builder and the detectors that scan the unified timeline (bursts,       *)
(* handoffs, phase transitions, milestones, influence and roles).          *)
(*                                                                         *)
(* Conventions.                                                            *)
(*  - Time stamps are whole hours since an arbitrary origin; a timedelta's *)
(*    .days is the floor division by 24, total_seconds()/3600 the          *)
(*    difference itself.                                                   *)
(*  - Python strings that the code inspects (identities searched for '@',  *)
(*    subjects searched for keywords) are tuples of one-character strings. *)
(*  - Python floats that the code compares are exact rationals, kept as    *)
(*    records [num, den] with den > 0.                                     *)
(*  - Participant and attendee lists hold no duplicates and are sets.      *)
(***************************************************************************)
EXTENDS Integers, Sequences, FiniteSets, TLC

VARIABLES
    emails,            \* List[EmailEvent] handed to build_graph
    calendar_events,   \* List[CalendarEvent] handed to build_graph / detect_milestones
    timeline_df,       \* rows of the timeline table, in table order
    timeline_cols,     \* whether the timeline table has its columns ('date', ...)
    timeline_pc,       \* create_unified_timeline: "idle" | "done" | "raised"
    fault_at,          \* the detector in which an unexpected fault is raised, or "none"
    G_nodes,           \* ProjectGraph.G: node id -> type tag
    G_edges,           \* ProjectGraph.G: the edge records of the MultiDiGraph
    person_nodes,      \* ProjectGraph.person_nodes
    event_nodes,       \* ProjectGraph.event_nodes
    temporal_edges,    \* ProjectGraph.temporal_edges
    graph_pc,          \* build_graph: "idle" | "done"
    export_file,       \* the file export_graph(format='json') wrote
    imported_graph,    \* the graph read back from export_file
    batch_graph,       \* a second, fresh ProjectGraph built on a part of the records
    person_graph,      \* calculate_influence: the person subgraph (pair -> weight)
    influence_params,  \* InfluenceMapper thresholds
    influence_df,      \* calculate_influence: the returned table
    influence_pc,      \* calculate_influence: "idle" | "done"
    burst_args,        \* CollaborationBurstDetector.__init__ arguments
    burst_params,      \* CollaborationBurstDetector parameters
    burst_timeline,    \* detect_bursts: the date-sorted records
    bursts,            \* detect_bursts: accepted bursts so far
    burst_i,           \* detect_bursts: next start index (1-based)
    burst_pc,          \* detect_bursts: "idle" | "scan" | "done" | "raised"
    handoff_params,    \* HandoffDetector parameters
    handoff_rows,      \* detect_handoffs: the date-sorted rows
    handoffs,          \* detect_handoffs: records found so far
    handoff_i,         \* detect_handoffs: index of the current row (1-based)
    handoff_pc,        \* detect_handoffs: "idle" | "scan" | "done"
    role_transitions,  \* detect_role_transitions: the returned list
    role_pc,           \* detect_role_transitions: "idle" | "done"
    phase_params,      \* PhaseTransitionDetector parameters
    window_topics,     \* _identify_transitions: the per-window topic records
    transitions,       \* _identify_transitions: transitions found
    phase_i,           \* _identify_transitions: index of the current window (1-based)
    phase_pc,          \* detect_transitions: "idle" | "topics" | "done"
    infer_keywords,    \* _infer_phase_name: the argument
    infer_name,        \* _infer_phase_name: the returned name, or NoName
    milestone_params,  \* MilestoneDetector parameters
    milestone_df,      \* detect_milestones: the returned table
    milestone_pc,      \* detect_milestones: "idle" | "done" | "raised"
    gini_values,       \* _calculate_gini: the argument
    gini_result,       \* _calculate_gini: the result, or NotRun
    gini_pc,           \* _calculate_gini: "idle" | "done"
    role_args,         \* _classify_role: the arguments and thresholds
    role_result,       \* _classify_role: the returned role
    role_call_pc       \* _classify_role: "idle" | "done"

inputVars    == <<emails, calendar_events, timeline_df, timeline_cols, timeline_pc,
                  fault_at>>
graphVars    == <<G_nodes, G_edges, person_nodes, event_nodes, temporal_edges, graph_pc, export_file, imported_graph, batch_graph>>
influenceVars == <<person_graph, influence_params, influence_df, influence_pc>>
burstVars    == <<burst_args, burst_params, burst_timeline, bursts, burst_i, burst_pc>>
handoffVars  == <<handoff_params, handoff_rows, handoffs, handoff_i, handoff_pc>>
roleTransVars == <<role_transitions, role_pc>>
phaseVars    == <<phase_params, window_topics, transitions, phase_i, phase_pc,
                  infer_keywords, infer_name>>
milestoneVars == <<milestone_params, milestone_df, milestone_pc>>
giniVars     == <<gini_values, gini_result, gini_pc>>
roleVars     == <<role_args, role_result, role_call_pc>>

vars == <<inputVars, graphVars, influenceVars, burstVars, handoffVars, roleTransVars,
          phaseVars, milestoneVars, giniVars, roleVars>>

(***************************************************************************)
(* Generic helpers.                                                        *)
(***************************************************************************)
Min(a, b) == IF a <= b THEN a ELSE b
Max(a, b) == IF a >= b THEN a ELSE b

Range(s) == {s[k] : k \in DOMAIN s}

RECURSIVE SumSeq(_)
SumSeq(s) == IF s = <<>> THEN 0 ELSE Head(s) + SumSeq(Tail(s))

\* Sequences over S of length at most n.
SeqsUpTo(S, n) == UNION {[1..k -> S] : k \in 0..n}

\* Exact rationals.
Rat(n, d) == [num |-> n, den |-> d]
RatLess(a, b) == a.num * b.den < b.num * a.den
RatLeq(a, b) == a.num * b.den <= b.num * a.den
RatEq(a, b) == a.num * b.den = b.num * a.den
RatAdd(a, b) == Rat(a.num * b.den + b.num * a.den, a.den * b.den)
RatSub(a, b) == Rat(a.num * b.den - b.num * a.den, a.den * b.den)
RatMul(a, b) == Rat(a.num * b.num, a.den * b.den)
RatMin(a, b) == IF RatLeq(a, b) THEN a ELSE b
RatZero == Rat(0, 1)
RatOne == Rat(1, 1)

\* The value of a result that was not computed.
NotRun == Rat(0 - 1, 1)

\* The name of a phase that was not inferred.
NoName == <<>>

\* sorted(values): insertion into an ascending sequence, then the whole sort.
RECURSIVE InsertAsc(_, _)
InsertAsc(x, s) ==
    IF s = <<>> THEN <<x>>
    ELSE IF x < Head(s) THEN <<x>> \o s
    ELSE <<Head(s)>> \o InsertAsc(x, Tail(s))

RECURSIVE SortedAsc(_)
SortedAsc(s) == IF s = <<>> THEN <<>> ELSE InsertAsc(Head(s), SortedAsc(Tail(s)))

\* A stable sort of records by their date field (list.sort / sort_values on 'date').
RECURSIVE InsertByDate(_, _)
InsertByDate(x, s) ==
    IF s = <<>> THEN <<x>>
    ELSE IF x.date < Head(s).date THEN <<x>> \o s
    ELSE <<Head(s)>> \o InsertByDate(x, Tail(s))

\* Stable: each record goes behind the records of its date already placed.
RECURSIVE SortByDate(_)
SortByDate(s) ==
    IF s = <<>> THEN <<>>
    ELSE InsertByDate(s[Len(s)], SortByDate(SubSeq(s, 1, Len(s) - 1)))

(***************************************************************************)
(* Identities.                                                             *)
(***************************************************************************)
Alice == <<"a", "@", "x">>
Bob == <<"b", "@", "y">>
Carol == <<"c", "@", "x">>
Malformed == <<"b", "a", "d">>

\* '@' in person
HasAt(p) == \E k \in DOMAIN p : p[k] = "@"

(***************************************************************************)
(* CollaborationBurstDetector._calculate_gini                              *)
(***************************************************************************)
\* cumsum += (n - i) * val over enumerate(sorted_values), i from 0.
RECURSIVE GiniCumsum(_, _, _)
GiniCumsum(sorted_values, n, i) ==
    IF i >= n THEN 0
    ELSE (n - i) * sorted_values[i + 1] + GiniCumsum(sorted_values, n, i + 1)

\* (2 * cumsum) / (n * total) - (n + 1) / n
CalculateGini(values) ==
    IF values = <<>> THEN RatZero
    ELSE LET sorted_values == SortedAsc(values)
             n == Len(values)
             cumsum == GiniCumsum(sorted_values, n, 0)
             total == SumSeq(values)
         IN  IF total = 0 THEN RatZero
             ELSE RatSub(Rat(2 * cumsum, n * total), Rat(n + 1, n))

RunCalculateGini ==
    /\ gini_pc = "idle"
    /\ gini_result' = CalculateGini(gini_values)
    /\ gini_pc' = "done"
    /\ UNCHANGED <<gini_values, inputVars, graphVars, influenceVars, burstVars,
                   handoffVars, roleTransVars, phaseVars, milestoneVars, roleVars>>

(***************************************************************************)
(* InfluenceMapper._classify_role                                          *)
(* Influence scores are integers in units of 0.00001.                      *)
(***************************************************************************)
\* The role matrix with the two single-criterion roles exchanged.
ClassifyRoleSwapped(influence, activity, thresholds) ==
    LET high_influence == influence >= thresholds.high_influence_threshold
        high_activity == activity >= thresholds.high_activity_threshold
    IN  IF high_influence /\ high_activity THEN "Active Leader"
        ELSE IF high_influence /\ ~high_activity THEN "Executor"
        ELSE IF ~high_influence /\ high_activity THEN "Strategic Leader"
        ELSE "Contributor"

ClassifyRole(influence, activity, thresholds) ==
    LET high_influence == influence >= thresholds.high_influence_threshold
        high_activity == activity >= thresholds.high_activity_threshold
    IN  IF high_influence /\ high_activity THEN "Active Leader"
        ELSE IF high_influence /\ ~high_activity THEN "Strategic Leader"
        ELSE IF ~high_influence /\ high_activity THEN "Executor"
        ELSE "Contributor"

RunClassifyRole ==
    /\ role_call_pc = "idle"
    /\ role_result' = ClassifyRole(role_args.influence, role_args.activity,
                                   role_args.thresholds)
    /\ role_call_pc' = "done"
    /\ UNCHANGED <<role_args, inputVars, graphVars, influenceVars, burstVars,
                   handoffVars, roleTransVars, phaseVars, milestoneVars, giniVars>>

(***************************************************************************)
(* CollaborationBurstDetector.detect_bursts                                *)
(***************************************************************************)
\* The inner loop "for j in range(i, len(timeline))" with its break: the index of
\* the last record of the contiguous run from j dated no later than window_end.
RECURSIVE GrowWindow(_, _, _)
GrowWindow(timeline, j, window_end) ==
    IF j > Len(timeline) THEN j - 1
    ELSE IF timeline[j].date <= window_end THEN GrowWindow(timeline, j + 1, window_end)
    ELSE j - 1

\* The window without its end: every event from position i on.
WindowEventsNoBound(timeline, i, params) == SubSeq(timeline, i, Len(timeline))

WindowEvents(timeline, i, params) ==
    SubSeq(timeline, i,
           GrowWindow(timeline, i, timeline[i].date + params.window_hours))

AllParticipants(window_events) ==
    UNION {window_events[k].participants : k \in DOMAIN window_events}

MeetsBurstCriteria(window_events, params) ==
    /\ Len(window_events) >= params.min_events
    /\ params.min_participants <= Cardinality(AllParticipants(window_events))
    /\ Cardinality(AllParticipants(window_events)) <= params.max_participants

\* list(participant_counts.values()): one count per participant, in some order.
RECURSIVE ParticipantCounts(_, _)
ParticipantCounts(people, events) ==
    IF people = {} THEN <<>>
    ELSE LET p == CHOOSE q \in people : TRUE
         IN  <<Cardinality({k \in DOMAIN events : p \in events[k].participants})>>
             \o ParticipantCounts(people \ {p}, events)

\* The weighted sum without its cap at 1.
CalculateBurstConfidenceUncapped(events, participants) ==
    IF events = <<>> THEN RatZero
    ELSE LET duration_hours == Max(events[Len(events)].date - events[1].date, 1)
             density_score == RatMin(RatOne, Rat(Len(events), duration_hours * 2))
             counts == ParticipantCounts(AllParticipants(events), events)
             balance_score == IF counts # <<>>
                              THEN RatSub(RatOne, CalculateGini(counts))
                              ELSE RatZero
             type_diversity == Rat(Cardinality({events[k].type : k \in DOMAIN events}), 2)
             confidence == RatAdd(RatMul(Rat(4, 10), density_score),
                                  RatAdd(RatMul(Rat(3, 10), balance_score),
                                         RatMul(Rat(3, 10), type_diversity)))
         IN  confidence

CalculateBurstConfidence(events, participants) ==
    IF events = <<>> THEN RatZero
    ELSE LET duration_hours == Max(events[Len(events)].date - events[1].date, 1)
             density_score == RatMin(RatOne, Rat(Len(events), duration_hours * 2))
             counts == ParticipantCounts(AllParticipants(events), events)
             balance_score == IF counts # <<>>
                              THEN RatSub(RatOne, CalculateGini(counts))
                              ELSE RatZero
             type_diversity == Rat(Cardinality({events[k].type : k \in DOMAIN events}), 2)
             confidence == RatAdd(RatMul(Rat(4, 10), density_score),
                                  RatAdd(RatMul(Rat(3, 10), balance_score),
                                         RatMul(Rat(3, 10), type_diversity)))
         IN  RatMin(RatOne, confidence)

\* The overlap test taking the ratio against the existing burst's duration.
OverlapsOneOfExisting(new_burst, existing) ==
    LET overlap_start == Max(new_burst.start_date, existing.start_date)
        overlap_end == Min(new_burst.end_date, existing.end_date)
        overlap_duration == overlap_end - overlap_start
        existing_duration == existing.end_date - existing.start_date
    IN  /\ overlap_start < overlap_end
        /\ existing_duration > 0
        /\ 10 * overlap_duration > 7 * existing_duration

\* A duplicate from half of the new burst's duration on.
OverlapsOneAboveHalf(new_burst, existing) ==
    LET overlap_start == Max(new_burst.start_date, existing.start_date)
        overlap_end == Min(new_burst.end_date, existing.end_date)
        overlap_duration == overlap_end - overlap_start
        new_duration == new_burst.end_date - new_burst.start_date
    IN  /\ overlap_start < overlap_end
        /\ new_duration > 0
        /\ 10 * overlap_duration > 5 * new_duration

\* overlap_duration / new_duration > 0.7 against one existing burst.
OverlapsOne(new_burst, existing) ==
    LET overlap_start == Max(new_burst.start_date, existing.start_date)
        overlap_end == Min(new_burst.end_date, existing.end_date)
        overlap_duration == overlap_end - overlap_start
        new_duration == new_burst.end_date - new_burst.start_date
    IN  /\ overlap_start < overlap_end
        /\ new_duration > 0
        /\ 10 * overlap_duration > 7 * new_duration

OverlapsWithExisting(new_burst, existing_bursts) ==
    \E k \in DOMAIN existing_bursts : OverlapsOne(new_burst, existing_bursts[k])

MakeBurst(window_events) ==
    [start_date |-> window_events[1].date,
     end_date |-> window_events[Len(window_events)].date,
     participants |-> AllParticipants(window_events),
     event_count |-> Len(window_events),
     event_types |-> [k \in DOMAIN window_events |-> window_events[k].type],
     confidence |-> CalculateBurstConfidence(window_events,
                                             AllParticipants(window_events)),
     trigger_events |-> [k \in DOMAIN window_events |-> window_events[k].event_id]]

\* The early return on an empty table, else the sort that precedes the loop.
DetectBurstsBegin ==
    /\ burst_pc = "idle"
    /\ IF timeline_df = <<>>
       THEN /\ burst_pc' = "done"
            /\ UNCHANGED burst_timeline
       ELSE /\ burst_pc' = "scan"
            /\ burst_timeline' = SortByDate(timeline_df)
    /\ bursts' = <<>>
    /\ burst_i' = 1
    /\ UNCHANGED <<burst_args, burst_params, inputVars, graphVars, influenceVars, handoffVars,
                   roleTransVars, phaseVars, milestoneVars, giniVars, roleVars>>

\* CollaborationBurst.confidence: Field(ge=0.0, le=1.0)
ValidConfidence(confidence) == RatLeq(RatZero, confidence) /\ RatLeq(confidence, RatOne)

\* One iteration of "for i in range(len(timeline))".  The constructor of
\* CollaborationBurst raises on a confidence outside [0, 1], which ends the call.
DetectBurstsStep ==
    /\ burst_pc = "scan"
    /\ burst_i <= Len(burst_timeline)
    /\ LET window_events == WindowEvents(burst_timeline, burst_i, burst_params)
       IN  IF /\ MeetsBurstCriteria(window_events, burst_params)
              /\ ~ValidConfidence(MakeBurst(window_events).confidence)
           THEN /\ burst_pc' = "raised"
                /\ UNCHANGED <<bursts, burst_i>>
           ELSE /\ IF /\ MeetsBurstCriteria(window_events, burst_params)
                      /\ ~OverlapsWithExisting(MakeBurst(window_events), bursts)
                   THEN bursts' = Append(bursts, MakeBurst(window_events))
                   ELSE bursts' = bursts
                /\ burst_i' = burst_i + 1
                /\ burst_pc' = IF burst_i = Len(burst_timeline) THEN "done"
                               ELSE "scan"
    /\ UNCHANGED <<burst_args, burst_params, burst_timeline, inputVars, graphVars, influenceVars,
                   handoffVars, roleTransVars, phaseVars, milestoneVars, giniVars,
                   roleVars>>

(***************************************************************************)
(* CollaborationBurstDetector.__init__ and _calculate_adaptive_params      *)
(***************************************************************************)
\* The buckets with "<=" for "<" at their upper ends.
CalculateAdaptiveParamsInclusive(timeline) ==
    IF timeline = <<>>
    THEN [window_hours |-> 168, min_events |-> 5, min_participants |-> 2,
          max_participants |-> 15]
    ELSE LET dates == {timeline[k].date : k \in DOMAIN timeline}
             latest == CHOOSE d \in dates : \A e \in dates : d >= e
             earliest == CHOOSE d \in dates : \A e \in dates : d <= e
             total_days == Max((latest - earliest) \div 24, 1)
             event_density == Rat(Len(timeline), total_days)
         IN  IF RatLeq(event_density, Rat(1, 10))
             THEN [window_hours |-> 30 * 24, min_events |-> 3, min_participants |-> 2,
                   max_participants |-> 20]
             ELSE IF RatLeq(event_density, Rat(5, 10))
             THEN [window_hours |-> 14 * 24, min_events |-> 5, min_participants |-> 3,
                   max_participants |-> 15]
             ELSE [window_hours |-> 7 * 24, min_events |-> 8, min_participants |-> 3,
                   max_participants |-> 10]

\* _calculate_adaptive_params: the fallback for an empty table, else the bucket of
\* len(timeline_df) / max((max date - min date).days, 1).
CalculateAdaptiveParams(timeline) ==
    IF timeline = <<>>
    THEN [window_hours |-> 168, min_events |-> 5, min_participants |-> 2,
          max_participants |-> 15]
    ELSE LET dates == {timeline[k].date : k \in DOMAIN timeline}
             latest == CHOOSE d \in dates : \A e \in dates : d >= e
             earliest == CHOOSE d \in dates : \A e \in dates : d <= e
             total_days == Max((latest - earliest) \div 24, 1)
             event_density == Rat(Len(timeline), total_days)
         IN  IF RatLess(event_density, Rat(1, 10))
             THEN [window_hours |-> 30 * 24, min_events |-> 3, min_participants |-> 2,
                   max_participants |-> 20]
             ELSE IF RatLess(event_density, Rat(5, 10))
             THEN [window_hours |-> 14 * 24, min_events |-> 5, min_participants |-> 3,
                   max_participants |-> 15]
             ELSE [window_hours |-> 7 * 24, min_events |-> 8, min_participants |-> 3,
                   max_participants |-> 10]

\* __init__: "if adaptive and timeline_df is not None" the derived parameters, else
\* the ones given.  burst_pc is "new" before the detector is constructed.
ConstructBurstDetector ==
    /\ burst_pc = "new"
    /\ burst_params' = IF burst_args.adaptive /\ burst_args.timeline_given
                       THEN CalculateAdaptiveParams(timeline_df)
                       ELSE burst_args.fixed
    /\ burst_pc' = "idle"
    /\ UNCHANGED <<burst_args, burst_timeline, bursts, burst_i, inputVars, graphVars,
                   influenceVars, handoffVars, roleTransVars, phaseVars, milestoneVars,
                   giniVars, roleVars>>

(***************************************************************************)
(* HandoffDetector.detect_handoffs                                         *)
(***************************************************************************)
HandoffRecord(handoff_type, prev_row, curr_row, new_people, departed_people, confidence) ==
    [date |-> curr_row.date,
     handoff_type |-> handoff_type,
     new_participants |-> new_people,
     departed_participants |-> departed_people,
     new_count |-> Cardinality(new_people),
     departed_count |-> Cardinality(departed_people),
     time_gap_days |-> (curr_row.date - prev_row.date) \div 24,
     event_type |-> curr_row.type,
     confidence |-> confidence]

\* The rule chain with rules 1 and 2 exchanged.
AnalyzeParticipantChangeExpansionFirst(prev_row, curr_row, params) ==
    LET prev_participants == prev_row.participants
        curr_participants == curr_row.participants
        new_people == curr_participants \ prev_participants
        departed_people == prev_participants \ curr_participants
        time_gap == (curr_row.date - prev_row.date) \div 24
        total_prev == Cardinality(prev_participants)
        turnover_rate == IF total_prev > 0
                         THEN Rat(Cardinality(departed_people), total_prev)
                         ELSE RatZero
        Rec(t, c) == <<HandoffRecord(t, prev_row, curr_row, new_people,
                                     departed_people, c)>>
    IN  IF new_people = {} /\ departed_people = {} THEN <<>>
        ELSE IF Cardinality(new_people) >= params.min_new_participants
        THEN Rec("team_expansion", RatMin(RatOne, Rat(Cardinality(new_people), 5)))
        ELSE IF time_gap > params.time_gap_days /\ Cardinality(new_people) >= 1
        THEN Rec("gap_resumption",
                 RatMin(RatOne, Rat(Cardinality(new_people) * time_gap, 90)))
        ELSE IF /\ RatLeq(params.turnover_threshold, turnover_rate)
                /\ Cardinality(new_people) >= 1
        THEN Rec("team_turnover", turnover_rate)
        ELSE IF Cardinality(departed_people) >= 1 /\ new_people = {}
        THEN Rec("departure", RatMin(RatOne, Rat(Cardinality(departed_people), 3)))
        ELSE <<>>

\* The chain without its last rule, the departure.
AnalyzeParticipantChangeNoDeparture(prev_row, curr_row, params) ==
    LET prev_participants == prev_row.participants
        curr_participants == curr_row.participants
        new_people == curr_participants \ prev_participants
        departed_people == prev_participants \ curr_participants
        time_gap == (curr_row.date - prev_row.date) \div 24
        total_prev == Cardinality(prev_participants)
        turnover_rate == IF total_prev > 0
                         THEN Rat(Cardinality(departed_people), total_prev)
                         ELSE RatZero
        Rec(t, c) == <<HandoffRecord(t, prev_row, curr_row, new_people,
                                     departed_people, c)>>
    IN  IF new_people = {} /\ departed_people = {} THEN <<>>
        ELSE IF time_gap > params.time_gap_days /\ Cardinality(new_people) >= 1
        THEN Rec("gap_resumption",
                 RatMin(RatOne, Rat(Cardinality(new_people) * time_gap, 90)))
        ELSE IF Cardinality(new_people) >= params.min_new_participants
        THEN Rec("team_expansion", RatMin(RatOne, Rat(Cardinality(new_people), 5)))
        ELSE IF /\ RatLeq(params.turnover_threshold, turnover_rate)
                /\ Cardinality(new_people) >= 1
        THEN Rec("team_turnover", turnover_rate)
        ELSE <<>>

\* _analyze_participant_change: the list of the record it returns, empty for None.
AnalyzeParticipantChange(prev_row, curr_row, params) ==
    LET prev_participants == prev_row.participants
        curr_participants == curr_row.participants
        new_people == curr_participants \ prev_participants
        departed_people == prev_participants \ curr_participants
        time_gap == (curr_row.date - prev_row.date) \div 24
        total_prev == Cardinality(prev_participants)
        turnover_rate == IF total_prev > 0
                         THEN Rat(Cardinality(departed_people), total_prev)
                         ELSE RatZero
        Rec(t, c) == <<HandoffRecord(t, prev_row, curr_row, new_people,
                                     departed_people, c)>>
    IN  IF new_people = {} /\ departed_people = {} THEN <<>>
        ELSE IF time_gap > params.time_gap_days /\ Cardinality(new_people) >= 1
        THEN Rec("gap_resumption",
                 RatMin(RatOne, Rat(Cardinality(new_people) * time_gap, 90)))
        ELSE IF Cardinality(new_people) >= params.min_new_participants
        THEN Rec("team_expansion", RatMin(RatOne, Rat(Cardinality(new_people), 5)))
        ELSE IF /\ RatLeq(params.turnover_threshold, turnover_rate)
                /\ Cardinality(new_people) >= 1
        THEN Rec("team_turnover", turnover_rate)
        ELSE IF Cardinality(departed_people) >= 1 /\ new_people = {}
        THEN Rec("departure", RatMin(RatOne, Rat(Cardinality(departed_people), 3)))
        ELSE <<>>

\* A variant that sorts the caller's table in place, latest row first, before it
\* takes its own sorted copy.
DetectHandoffsBeginInPlace ==
    /\ handoff_pc = "idle"
    /\ IF Len(timeline_df) < 2
       THEN /\ handoff_pc' = "done"
            /\ UNCHANGED <<handoff_rows, timeline_df>>
       ELSE /\ handoff_pc' = "scan"
            /\ handoff_rows' = SortByDate(timeline_df)
            /\ timeline_df' = [k \in DOMAIN timeline_df |->
                                  SortByDate(timeline_df)[Len(timeline_df) + 1 - k]]
    /\ handoffs' = <<>>
    /\ handoff_i' = 2
    /\ UNCHANGED <<handoff_params, emails, calendar_events, timeline_cols, timeline_pc,
                   fault_at, graphVars, influenceVars, burstVars, roleTransVars,
                   phaseVars, milestoneVars, giniVars, roleVars>>

\* The early return on fewer than two rows, else the sort that precedes the loop.
DetectHandoffsBegin ==
    /\ handoff_pc = "idle"
    /\ IF Len(timeline_df) < 2
       THEN /\ handoff_pc' = "done"
            /\ UNCHANGED handoff_rows
       ELSE /\ handoff_pc' = "scan"
            /\ handoff_rows' = SortByDate(timeline_df)
    /\ handoffs' = <<>>
    /\ handoff_i' = 2
    /\ UNCHANGED <<handoff_params, inputVars, graphVars, influenceVars, burstVars,
                   roleTransVars, phaseVars, milestoneVars, giniVars, roleVars>>

\* One iteration of "for i in range(1, len(df))" on the pair (i-1, i).
DetectHandoffsStep ==
    /\ handoff_pc = "scan"
    /\ handoff_i <= Len(handoff_rows)
    /\ handoffs' = handoffs \o AnalyzeParticipantChange(handoff_rows[handoff_i - 1],
                                                        handoff_rows[handoff_i],
                                                        handoff_params)
    /\ handoff_i' = handoff_i + 1
    /\ handoff_pc' = IF handoff_i = Len(handoff_rows) THEN "sort" ELSE "scan"
    /\ UNCHANGED <<handoff_params, handoff_rows, inputVars, graphVars, influenceVars,
                   burstVars, roleTransVars, phaseVars, milestoneVars, giniVars,
                   roleVars>>

\* The table: empty when nothing was found, else sorted by date.  handoff_id is the
\* position of the record in the result.
DetectHandoffsFinish ==
    /\ handoff_pc = "sort"
    /\ handoffs' = SortByDate(handoffs)
    /\ handoff_pc' = "done"
    /\ UNCHANGED <<handoff_params, handoff_rows, handoff_i, inputVars, graphVars,
                   influenceVars, burstVars, roleTransVars, phaseVars, milestoneVars,
                   giniVars, roleVars>>

(***************************************************************************)
(* Strings as tuples of characters.                                        *)
(***************************************************************************)
LowerLetters == <<"a", "b", "c", "d", "e", "f", "g", "h", "i", "j", "k", "l", "m",
                  "n", "o", "p", "q", "r", "s", "t", "u", "v", "w", "x", "y", "z">>
UpperLetters == <<"A", "B", "C", "D", "E", "F", "G", "H", "I", "J", "K", "L", "M",
                  "N", "O", "P", "Q", "R", "S", "T", "U", "V", "W", "X", "Y", "Z">>

IsLetter(c) == \E k \in DOMAIN LowerLetters : c = LowerLetters[k] \/ c = UpperLetters[k]

LowerChar(c) ==
    IF \E k \in DOMAIN UpperLetters : c = UpperLetters[k]
    THEN LowerLetters[CHOOSE k \in DOMAIN UpperLetters : c = UpperLetters[k]]
    ELSE c

UpperChar(c) ==
    IF \E k \in DOMAIN LowerLetters : c = LowerLetters[k]
    THEN UpperLetters[CHOOSE k \in DOMAIN LowerLetters : c = LowerLetters[k]]
    ELSE c

\* str.lower()
Lower(str) == [k \in DOMAIN str |-> LowerChar(str[k])]

\* str.title(): a letter that follows a non-letter (or starts the string) is put in
\* upper case, every other letter in lower case.
Title(str) ==
    [k \in DOMAIN str |->
        IF k = 1 \/ ~IsLetter(str[k - 1]) THEN UpperChar(str[k]) ELSE LowerChar(str[k])]

\* "word in text" on strings: word is a substring of text.
IsSubstring(word, text) ==
    \E k \in 0..(Len(text) - Len(word)) : SubSeq(text, k + 1, k + Len(word)) = word

\* ' '.join(words)
RECURSIVE JoinWithSpace(_)
JoinWithSpace(words) ==
    IF words = <<>> THEN <<>>
    ELSE IF Len(words) = 1 THEN words[1]
    ELSE words[1] \o <<" ">> \o JoinWithSpace(Tail(words))

(***************************************************************************)
(* PhaseTransitionDetector._identify_transitions and _infer_phase_name     *)
(***************************************************************************)
\* The category names and word lists of _infer_phase_name, in the order of its tests.
PhaseCategories ==
    <<[name |-> <<"P", "l", "a", "n", "n", "i", "n", "g">>,
       words |-> <<
            <<"w", "o", "r", "k", "s", "h", "o", "p">>,
            <<"k", "i", "c", "k", "o", "f", "f">>,
            <<"b", "r", "i", "e", "f", "i", "n", "g">>,
            <<"d", "i", "s", "c", "o", "v", "e", "r", "y">>,
            <<"p", "l", "a", "n", "n", "i", "n", "g">>>>],
      [name |-> <<"D", "e", "s", "i", "g", "n">>,
       words |-> <<
            <<"d", "e", "s", "i", "g", "n">>,
            <<"b", "r", "a", "n", "d">>,
            <<"i", "d", "e", "n", "t", "i", "t", "y">>,
            <<"v", "i", "s", "u", "a", "l">>,
            <<"c", "r", "e", "a", "t", "i", "v", "e">>>>],
      [name |-> <<"D", "e", "v", "e", "l", "o", "p", "m", "e", "n", "t">>,
       words |-> <<
            <<"a", "r", "c", "h", "i", "t", "e", "c", "t", "u", "r", "e">>,
            <<"t", "e", "c", "h", "n", "i", "c", "a", "l">>,
            <<"i", "m", "p", "l", "e", "m", "e", "n", "t", "a", "t", "i", "o", "n">>,
            <<"d", "e", "v", "e", "l", "o", "p", "m", "e", "n", "t">>>>],
      [name |-> <<"D", "e", "l", "i", "v", "e", "r", "y">>,
       words |-> <<
            <<"p", "r", "e", "s", "e", "n", "t", "a", "t", "i", "o", "n">>,
            <<"r", "e", "v", "i", "e", "w">>,
            <<"d", "e", "m", "o">>,
            <<"d", "e", "l", "i", "v", "e", "r", "y">>>>],
      [name |-> <<"S", "c", "o", "p", "i", "n", "g">>,
       words |-> <<
            <<"s", "c", "o", "p", "e">>,
            <<"r", "e", "q", "u", "i", "r", "e", "m", "e", "n", "t", "s">>,
            <<"s", "p", "e", "c", "i", "f", "i", "c", "a", "t", "i", "o", "n">>,
            <<"d", "o", "c", "u", "m", "e", "n", "t", "a", "t", "i", "o", "n">>>>],
      [name |-> <<"L", "a", "u", "n", "c", "h">>,
       words |-> <<
            <<"l", "a", "u", "n", "c", "h">>,
            <<"r", "e", "l", "e", "a", "s", "e">>,
            <<"d", "e", "p", "l", "o", "y", "m", "e", "n", "t">>,
            <<"l", "i", "v", "e">>>>],
      [name |-> <<"M", "a", "i", "n", "t", "e", "n", "a", "n", "c", "e">>,
       words |-> <<
            <<"m", "a", "i", "n", "t", "e", "n", "a", "n", "c", "e">>,
            <<"s", "u", "p", "p", "o", "r", "t">>,
            <<"u", "p", "d", "a", "t", "e">>,
            <<"i", "t", "e", "r", "a", "t", "i", "o", "n">>>>]>>

\* The first category one of whose words occurs in the joined keywords, else the
\* first keyword title-cased, else "Unknown".
RECURSIVE InferFromCategory(_, _, _)
InferFromCategory(keywords, keywords_str, c) ==
    IF c > Len(PhaseCategories)
    THEN IF keywords # <<>> THEN Title(keywords[1])
         ELSE <<"U", "n", "k", "n", "o", "w", "n">>
    ELSE IF \E w \in DOMAIN PhaseCategories[c].words :
               IsSubstring(PhaseCategories[c].words[w], keywords_str)
    THEN PhaseCategories[c].name
    ELSE InferFromCategory(keywords, keywords_str, c + 1)

\* A variant that lets the first keyword decide before the category order does.
InferPhaseNameFirstKeyword(keywords) ==
    LET full == InferFromCategory(keywords,
                    JoinWithSpace([k \in DOMAIN keywords |-> Lower(keywords[k])]), 1)
    IN  IF keywords = <<>> THEN full
        ELSE LET own == InferFromCategory(<<keywords[1]>>, Lower(keywords[1]), 1)
             IN  IF own # Title(keywords[1]) THEN own ELSE full

InferPhaseName(keywords) ==
    InferFromCategory(keywords,
                      JoinWithSpace([k \in DOMAIN keywords |-> Lower(keywords[k])]), 1)

\* A call of _infer_phase_name on the keyword list infer_keywords.
RunInferPhaseName ==
    /\ infer_name = NoName
    /\ infer_name' = InferPhaseName(infer_keywords)
    /\ UNCHANGED <<infer_keywords, phase_params, window_topics, transitions, phase_i,
                   phase_pc, inputVars, graphVars, influenceVars, burstVars,
                   handoffVars, roleTransVars, milestoneVars, giniVars, roleVars>>

\* intersection / union if union > 0 else 0
JaccardSimilarity(set1, set2) ==
    IF Cardinality(set1 \cup set2) > 0
    THEN Rat(Cardinality(set1 \cap set2), Cardinality(set1 \cup set2))
    ELSE RatZero

\* The phase-shift test with "<=" for "<".
IsPhaseShiftInclusive(similarity, params) ==
    RatLeq(similarity, params.similarity_threshold)

\* similarity < self.similarity_threshold
IsPhaseShift(similarity, params) == RatLess(similarity, params.similarity_threshold)

\* keywords[:5]
FirstFive(keywords) == SubSeq(keywords, 1, Min(5, Len(keywords)))

\* The record appended for a pair of windows.  similarity_score and confidence are
\* the exact values, before round(., 3).
TransitionRecord(prev_window, curr_window, params) ==
    LET similarity == JaccardSimilarity(Range(prev_window.keywords),
                                        Range(curr_window.keywords))
        similarity_score == RatSub(RatOne, similarity)
        event_density_score == RatMin(RatOne, Rat(curr_window.event_count, 10))
        keyword_quality_score == RatMin(RatOne, Rat(Len(curr_window.keywords),
                                                    params.top_keywords))
    IN  [date |-> curr_window.start,
         previous_phase |-> InferPhaseName(prev_window.keywords),
         new_phase |-> InferPhaseName(curr_window.keywords),
         previous_keywords |-> FirstFive(prev_window.keywords),
         new_keywords |-> FirstFive(curr_window.keywords),
         similarity_score |-> similarity,
         confidence |-> RatAdd(RatMul(Rat(5, 10), similarity_score),
                               RatAdd(RatMul(Rat(3, 10), event_density_score),
                                      RatMul(Rat(2, 10), keyword_quality_score))),
         event_count |-> curr_window.event_count]

\* One iteration of "for i in range(1, len(window_topics))" on the pair (i-1, i).
IdentifyTransitionsStep ==
    /\ phase_pc = "topics"
    /\ phase_i <= Len(window_topics)
    /\ LET prev_window == window_topics[phase_i - 1]
           curr_window == window_topics[phase_i]
           similarity == JaccardSimilarity(Range(prev_window.keywords),
                                           Range(curr_window.keywords))
       IN  IF IsPhaseShift(similarity, phase_params)
           THEN transitions' = Append(transitions,
                                      TransitionRecord(prev_window, curr_window,
                                                       phase_params))
           ELSE transitions' = transitions
    /\ phase_i' = phase_i + 1
    /\ UNCHANGED <<infer_keywords, infer_name, phase_params, window_topics, phase_pc, inputVars, graphVars,
                   influenceVars, burstVars, handoffVars, roleTransVars, milestoneVars,
                   giniVars, roleVars>>

\* After the loop: the table of the transitions, sorted by date (empty when there
\* are none).  transition_id is the position of the record in the result.
IdentifyTransitionsFinish ==
    /\ phase_pc = "topics"
    /\ phase_i > Len(window_topics)
    /\ transitions' = SortByDate(transitions)
    /\ phase_pc' = "done"
    /\ UNCHANGED <<infer_keywords, infer_name, phase_params, window_topics, phase_i, inputVars, graphVars,
                   influenceVars, burstVars, handoffVars, roleTransVars, milestoneVars,
                   giniVars, roleVars>>

(***************************************************************************)
(* DataPreprocessor.create_unified_timeline                                *)
(***************************************************************************)
EmailRow(email) ==
    [date |-> email.first_date, type |-> "email", event_id |-> email.thread_id,
     participants |-> email.participants]

MeetingRow(event) ==
    [date |-> event.start, type |-> "meeting", event_id |-> event.uid,
     participants |-> event.attendees]

\* The rows of the emails, then of the meetings, sorted by date.
UnifiedTimeline(email_list, meeting_list) ==
    SortByDate([k \in DOMAIN email_list |-> EmailRow(email_list[k])]
               \o [k \in DOMAIN meeting_list |-> MeetingRow(meeting_list[k])])

\* With no thread and no meeting the table has no 'date' column and sort_values
\* raises KeyError.
CreateUnifiedTimeline ==
    /\ timeline_pc = "idle"
    /\ IF emails = <<>> /\ calendar_events = <<>>
       THEN /\ timeline_pc' = "raised"
            /\ UNCHANGED timeline_df
       ELSE /\ timeline_pc' = "done"
            /\ timeline_df' = UnifiedTimeline(emails, calendar_events)
    /\ UNCHANGED <<emails, calendar_events, timeline_cols, fault_at, graphVars,
                   influenceVars, burstVars, handoffVars, roleTransVars, phaseVars, milestoneVars,
                   giniVars, roleVars>>

(***************************************************************************)
(* ProjectGraph.build_graph                                                *)
(* A node is [id, type]; an edge is [src, dst, relation, attrs].  Parallel  *)
(* edges of the MultiDiGraph differ in relation, so the edges are a set.   *)
(***************************************************************************)
NoOrganizer == <<>>

\* _add_person_nodes: the identities of every thread, organizer and attendee list
\* that are non-empty and hold an '@'.
AllPeople(email_list, meeting_list) ==
    UNION {email_list[k].participants : k \in DOMAIN email_list}
    \cup {meeting_list[k].organizer : k \in {j \in DOMAIN meeting_list :
                                              meeting_list[j].organizer # NoOrganizer}}
    \cup UNION {meeting_list[k].attendees : k \in DOMAIN meeting_list}

\* Every non-empty identity, with or without an '@'.
PersonNodesUnfiltered(email_list, meeting_list) ==
    {person \in AllPeople(email_list, meeting_list) : person # <<>>}

PersonNodes(email_list, meeting_list) ==
    {person \in AllPeople(email_list, meeting_list) : person # <<>> /\ HasAt(person)}

\* _add_email_events: the 'participated' edges of the threads.
EmailEdges(email_list, persons) ==
    UNION {{[src |-> participant, dst |-> email_list[k].thread_id,
             relation |-> "participated",
             attrs |-> [timestamp |-> email_list[k].first_date]] :
               participant \in email_list[k].participants \cap persons} :
           k \in DOMAIN email_list}

\* _add_calendar_events: the 'organized' and 'attended' edges of the meetings.
CalendarEdges(meeting_list, persons) ==
    {[src |-> meeting_list[k].organizer, dst |-> meeting_list[k].uid,
      relation |-> "organized", attrs |-> [timestamp |-> meeting_list[k].start]] :
        k \in {j \in DOMAIN meeting_list :
                 /\ meeting_list[j].organizer # NoOrganizer
                 /\ meeting_list[j].organizer \in persons}}
    \cup UNION {{[src |-> attendee, dst |-> meeting_list[k].uid,
                  relation |-> "attended",
                  attrs |-> [timestamp |-> meeting_list[k].start]] :
                    attendee \in meeting_list[k].attendees \cap persons} :
                k \in DOMAIN meeting_list}

\* all_events without its sort: the threads, then the meetings.
TemporalEventsUnsorted(email_list, meeting_list) ==
    [k \in DOMAIN email_list |->
        [id |-> email_list[k].thread_id, date |-> email_list[k].first_date,
         participants |-> email_list[k].participants, type |-> "email"]]
    \o [k \in DOMAIN meeting_list |->
        [id |-> meeting_list[k].uid, date |-> meeting_list[k].start,
         participants |-> meeting_list[k].attendees, type |-> "meeting"]]

\* _create_temporal_links: all_events, the threads then the meetings, sorted by date.
TemporalEvents(email_list, meeting_list) ==
    SortByDate([k \in DOMAIN email_list |->
                   [id |-> email_list[k].thread_id, date |-> email_list[k].first_date,
                    participants |-> email_list[k].participants, type |-> "email"]]
               \o [k \in DOMAIN meeting_list |->
                   [id |-> meeting_list[k].uid, date |-> meeting_list[k].start,
                    participants |-> meeting_list[k].attendees, type |-> "meeting"]])

window_hours == 48

TemporalEdge(event1, event2) ==
    [src |-> event1.id, dst |-> event2.id, relation |-> "temporal_proximity",
     attrs |-> [time_diff_hours |-> event2.date - event1.date,
                shared_participants |->
                    Cardinality(event1.participants \cap event2.participants),
                confidence |->
                    RatMin(RatOne,
                           Rat(Cardinality(event1.participants \cap event2.participants),
                               3))]]

\* The inner loop leaving at "time_diff >= window_hours".
RECURSIVE TemporalLinksFromStrict(_, _, _)
TemporalLinksFromStrict(all_events, i, j) ==
    IF j > Len(all_events) THEN <<>>
    ELSE IF all_events[j].date - all_events[i].date >= window_hours THEN <<>>
    ELSE (IF all_events[i].participants \cap all_events[j].participants # {}
          THEN <<TemporalEdge(all_events[i], all_events[j])>>
          ELSE <<>>)
         \o TemporalLinksFromStrict(all_events, i, j + 1)

\* The inner loop "for event2 in all_events[i+1:]" from position j, with its break.
RECURSIVE TemporalLinksFrom(_, _, _)
TemporalLinksFrom(all_events, i, j) ==
    IF j > Len(all_events) THEN <<>>
    ELSE IF all_events[j].date - all_events[i].date > window_hours THEN <<>>
    ELSE (IF all_events[i].participants \cap all_events[j].participants # {}
          THEN <<TemporalEdge(all_events[i], all_events[j])>>
          ELSE <<>>)
         \o TemporalLinksFrom(all_events, i, j + 1)

\* The outer loop: the temporal edges in the order they are added.
RECURSIVE TemporalLinks(_, _)
TemporalLinks(all_events, i) ==
    IF i > Len(all_events) THEN <<>>
    ELSE TemporalLinksFrom(all_events, i, i + 1) \o TemporalLinks(all_events, i + 1)

\* G.successors(n) and G.predecessors(n).
Successors(edges, n) == {e.dst : e \in {x \in edges : x.src = n}}
Predecessors(edges, n) == {e.src : e \in {x \in edges : x.dst = n}}

NodeIds(nodes, types) == {n.id : n \in {x \in nodes : x.type \in types}}

EventTypes == {"email", "meeting"}

\* Counts every membership edge of the person instead of every event.
CollaborationCountPerEdge(nodes, edges, persons, person, collaborator) ==
    Cardinality({edge \in edges :
                    /\ edge.src = person
                    /\ edge.dst \in NodeIds(nodes, EventTypes)
                    /\ collaborator \in Predecessors(edges, edge.dst)})

\* The share (in percent) of the person's events that the collaborator is in, instead
\* of their number.
CollaborationCountShare(nodes, edges, persons, person, collaborator) ==
    LET person_events == Successors(edges, person) \cap NodeIds(nodes, EventTypes)
    IN  IF person_events = {} THEN 0
        ELSE (100 * Cardinality({event \in person_events :
                                    collaborator \in Predecessors(edges, event)}))
                 \div Cardinality(person_events)

\* _create_collaboration_links: collaborators[collaborator] for one person.
CollaborationCount(nodes, edges, persons, person, collaborator) ==
    Cardinality({event \in Successors(edges, person) \cap NodeIds(nodes, EventTypes) :
                    collaborator \in Predecessors(edges, event)})

CollaborationEdges(nodes, edges, persons) ==
    {[src |-> pair[1], dst |-> pair[2], relation |-> "collaborated",
      attrs |-> [event_count |-> CollaborationCount(nodes, edges, persons,
                                                     pair[1], pair[2]),
                 weight |-> CollaborationCount(nodes, edges, persons,
                                               pair[1], pair[2])]] :
        pair \in {pr \in persons \X persons :
                    /\ pr[1] # pr[2]
                    /\ CollaborationCount(nodes, edges, persons, pr[1], pr[2]) > 0}}

\* G.edges after build_graph(email_list, meeting_list) on a new ProjectGraph.
BuiltEdges(email_list, meeting_list) ==
    LET persons == PersonNodes(email_list, meeting_list)
        nodes == {[id |-> person, type |-> "person"] : person \in persons}
                 \cup {[id |-> email_list[k].thread_id, type |-> "email"] :
                         k \in DOMAIN email_list}
                 \cup {[id |-> meeting_list[k].uid, type |-> "meeting"] :
                         k \in DOMAIN meeting_list}
        links == TemporalLinks(TemporalEvents(email_list, meeting_list), 1)
        edges == EmailEdges(email_list, persons)
                 \cup CalendarEdges(meeting_list, persons)
                 \cup Range(links)
    IN  edges \cup CollaborationEdges(nodes, edges, persons)

\* build_graph(emails, calendar_events) on the ProjectGraph main constructs.
BuildGraph ==
    /\ graph_pc = "idle"
    /\ LET persons == PersonNodes(emails, calendar_events)
           nodes == {[id |-> person, type |-> "person"] : person \in persons}
                    \cup {[id |-> emails[k].thread_id, type |-> "email"] :
                            k \in DOMAIN emails}
                    \cup {[id |-> calendar_events[k].uid, type |-> "meeting"] :
                            k \in DOMAIN calendar_events}
           links == TemporalLinks(TemporalEvents(emails, calendar_events), 1)
       IN  /\ person_nodes' = persons
           /\ event_nodes' = {emails[k].thread_id : k \in DOMAIN emails}
                             \cup {calendar_events[k].uid : k \in DOMAIN calendar_events}
           /\ G_nodes' = nodes
           /\ temporal_edges' = [k \in DOMAIN links |-> <<links[k].src, links[k].dst>>]
           /\ G_edges' = BuiltEdges(emails, calendar_events)
    /\ graph_pc' = "done"
    /\ UNCHANGED <<export_file, imported_graph, batch_graph, inputVars, influenceVars,
                   burstVars, handoffVars, roleTransVars, phaseVars, milestoneVars,
                   giniVars, roleVars>>



(***************************************************************************)
(* build_graph on a fresh ProjectGraph, for a part of the loaded records.  *)
(***************************************************************************)
NoBatchGraph == [built |-> FALSE, emails |-> <<>>, calendar_events |-> <<>>, edges |-> {}]

RECURSIVE KeepIndices(_, _, _)
KeepIndices(records, keep, k) ==
    IF k > Len(records) THEN <<>>
    ELSE (IF k \in keep THEN <<records[k]>> ELSE <<>>) \o KeepIndices(records, keep, k + 1)

BuildGraphOnBatch ==
    /\ ~batch_graph.built
    /\ \E keep_emails \in SUBSET DOMAIN emails,
          keep_meetings \in SUBSET DOMAIN calendar_events :
          LET email_list == KeepIndices(emails, keep_emails, 1)
              meeting_list == KeepIndices(calendar_events, keep_meetings, 1)
          IN  batch_graph' = [built |-> TRUE, emails |-> email_list,
                              calendar_events |-> meeting_list,
                              edges |-> BuiltEdges(email_list, meeting_list)]
    /\ UNCHANGED <<G_nodes, G_edges, person_nodes, event_nodes, temporal_edges,
                   graph_pc, export_file, imported_graph, inputVars, influenceVars,
                   burstVars, handoffVars, roleTransVars, phaseVars, milestoneVars,
                   giniVars, roleVars>>

(***************************************************************************)
(* ProjectGraph.export_graph(format='json') and the reading back of the    *)
(* written file.                                                           *)
(***************************************************************************)
NoFile == [written |-> FALSE, complete |-> FALSE, nodes |-> {}, links |-> {}]
NotImported == [status |-> "none", nodes |-> {}, edges |-> {}]

\* Event nodes carry date and end_date, membership edges carry timestamp: datetime
\* objects, which json.dump cannot encode (TypeError).
NodeHasDatetime(node) == node.type \in {"email", "meeting"}
EdgeHasDatetime(edge) == edge.relation \in {"participated", "organized", "attended"}

JsonSerializable(nodes, edges) ==
    /\ \A node \in nodes : ~NodeHasDatetime(node)
    /\ \A edge \in edges : ~EdgeHasDatetime(edge)

\* json_graph.node_link_data: the nodes, and the edges as links with source and target.
NodeLinkData(nodes, edges) ==
    [nodes |-> nodes,
     links |-> {[source |-> edge.src, target |-> edge.dst,
                 relation |-> edge.relation, attrs |-> edge.attrs] : edge \in edges}]

\* open(output_path, 'w') then json.dump: a TypeError leaves the file truncated; the
\* exception is caught and logged.
ExportGraph ==
    /\ graph_pc = "done"
    /\ ~export_file.written
    /\ export_file' =
          IF JsonSerializable(G_nodes, G_edges)
          THEN [written |-> TRUE, complete |-> TRUE,
                nodes |-> NodeLinkData(G_nodes, G_edges).nodes,
                links |-> NodeLinkData(G_nodes, G_edges).links]
          ELSE [written |-> TRUE, complete |-> FALSE, nodes |-> {}, links |-> {}]
    /\ UNCHANGED <<G_nodes, G_edges, person_nodes, event_nodes, temporal_edges,
                   graph_pc, imported_graph, batch_graph, inputVars, influenceVars, burstVars,
                   handoffVars, roleTransVars, phaseVars, milestoneVars, giniVars,
                   roleVars>>

\* json.load and json_graph.node_link_graph on the written file: a truncated file is
\* not JSON and the load raises.
ImportGraph ==
    /\ export_file.written
    /\ imported_graph.status = "none"
    /\ imported_graph' =
          IF export_file.complete
          THEN [status |-> "loaded", nodes |-> export_file.nodes,
                edges |-> {[src |-> link.source, dst |-> link.target,
                            relation |-> link.relation, attrs |-> link.attrs] :
                              link \in export_file.links}]
          ELSE [status |-> "raised", nodes |-> {}, edges |-> {}]
    /\ UNCHANGED <<G_nodes, G_edges, person_nodes, event_nodes, temporal_edges,
                   graph_pc, export_file, batch_graph, inputVars, influenceVars, burstVars,
                   handoffVars, roleTransVars, phaseVars, milestoneVars, giniVars,
                   roleVars>>

(***************************************************************************)
(* InfluenceMapper.calculate_influence                                     *)
(***************************************************************************)
\* graph.neighbors(n): on the MultiDiGraph that build_graph returns, the successors.
Neighbors(edges, n) == Successors(edges, n)

\* people_in_event of _create_person_subgraph.
PeopleInEvent(edges, persons, event) ==
    {n \in Neighbors(edges, event) : n \in persons}

\* _create_person_subgraph: the weighted edges of the person graph, one record per
\* pair of persons that was connected, its weight the number of events that
\* connected it.
CreatePersonSubgraph(nodes, edges, persons) ==
    LET events == NodeIds(nodes, EventTypes)
        Weight(pair) == Cardinality({event \in events :
                                        pair \subseteq PeopleInEvent(edges, persons, event)})
    IN  {[pair |-> pair, weight |-> Weight(pair)] :
            pair \in {pr \in SUBSET persons : Cardinality(pr) = 2 /\ Weight(pr) > 0}}

\* _calculate_activity_stats, for one person.
ActivityStats(timeline, person) ==
    LET mine == {k \in DOMAIN timeline : person \in timeline[k].participants}
    IN  [total_events |-> Cardinality(mine),
         email_count |-> Cardinality({k \in mine : timeline[k].type = "email"}),
         meeting_count |-> Cardinality({k \in mine : timeline[k].type = "meeting"})]

\* round(influence_score, 4) on a score in units of 0.00001.
Round4(score) == ((score + 5) \div 10) * 10

\* The row of one person, before the sort.
InfluenceRow(person, score, timeline, params) ==
    LET stats == ActivityStats(timeline, person)
    IN  [participant |-> person,
         influence_score |-> Round4(score),
         event_count |-> stats.total_events,
         email_count |-> stats.email_count,
         meeting_count |-> stats.meeting_count,
         role |-> ClassifyRole(score, stats.total_events, params)]

\* sort_values with ascending=True.
IsSortedAscending(rows) ==
    \A k \in 1..(Len(rows) - 1) : rows[k].influence_score <= rows[k + 1].influence_score

\* sort_values('influence_score', ascending=False): the rows are in an order of
\* non-increasing influence_score.
IsSortedDescending(rows) ==
    \A k \in 1..(Len(rows) - 1) : rows[k].influence_score >= rows[k + 1].influence_score

\* influence_df['rank'] = range(1, len(influence_df) + 1)
WithRank(rows) ==
    [k \in DOMAIN rows |->
        [participant |-> rows[k].participant,
         influence_score |-> rows[k].influence_score,
         event_count |-> rows[k].event_count,
         email_count |-> rows[k].email_count,
         meeting_count |-> rows[k].meeting_count,
         role |-> rows[k].role,
         rank |-> k]]

\* The PageRank scores nx.pagerank may return, in units of 0.00001: one just
\* under the default threshold that rounds to it, the threshold, one above.
PagerankChoices == {2996, 3000, 5000}

Orderings(S) == {f \in [1..Cardinality(S) -> S] : \A x \in S : \E k \in DOMAIN f : f[k] = x}

\* The whole call.  nx.pagerank is the library's: its result is any assignment of
\* scores to the persons; the sort leaves the order among equal scores open.
CalculateInfluence ==
    /\ influence_pc = "idle"
    /\ LET persons == NodeIds(G_nodes, {"person"})
       IN  IF G_nodes = {} \/ persons = {}
           THEN /\ influence_df' = <<>>
                /\ UNCHANGED person_graph
           ELSE /\ person_graph' = CreatePersonSubgraph(G_nodes, G_edges, persons)
                /\ \E pagerank_scores \in [persons -> PagerankChoices],
                      order \in Orderings(persons) :
                      LET rows == [k \in DOMAIN order |->
                                      InfluenceRow(order[k], pagerank_scores[order[k]],
                                                   timeline_df, influence_params)]
                      IN  /\ IsSortedDescending(rows)
                          /\ influence_df' = WithRank(rows)
    /\ influence_pc' = "done"
    /\ UNCHANGED <<influence_params, inputVars, graphVars, burstVars, handoffVars,
                   roleTransVars, phaseVars, milestoneVars, giniVars, roleVars>>

KwDesign == <<"d", "e", "s", "i", "g", "n">>
KwDemo == <<"d", "e", "m", "o">>
KwBudget == <<"b", "u", "d", "g", "e", "t">>
KwKickoff == <<"k", "i", "c", "k", "o", "f", "f">>

\* Keyword lists as _extract_window_topics yields them: never empty, since a window
\* that is kept has at least one cleaned word.
PhaseKeywordLists ==
    {<<KwDesign>>, <<KwDesign, KwDemo>>, <<KwDemo, KwDesign>>,
     <<KwBudget, KwKickoff>>, <<KwBudget>>}

(***************************************************************************)
(* PhaseTransitionDetector.detect_transitions, up to _identify_transitions *)
(***************************************************************************)
MinDate(rows) == CHOOSE d \in {rows[k].date : k \in DOMAIN rows} :
                    \A k \in DOMAIN rows : d <= rows[k].date
MaxDate(rows) == CHOOSE d \in {rows[k].date : k \in DOMAIN rows} :
                    \A k \in DOMAIN rows : d >= rows[k].date

\* Rows of a table that satisfy a condition on the date, in table order.
RECURSIVE RowsDatedIn(_, _, _)
RowsDatedIn(rows, low, high) ==
    IF rows = <<>> THEN <<>>
    ELSE (IF rows[1].date >= low /\ rows[1].date < high THEN <<rows[1]>> ELSE <<>>)
         \o RowsDatedIn(Tail(rows), low, high)

\* The loop running while current <= end_date.
RECURSIVE TimeWindowsFromInclusive(_, _, _, _)
TimeWindowsFromInclusive(timeline, current, end_date, params) ==
    IF ~(current <= end_date) THEN <<>>
    ELSE LET window == RowsDatedIn(timeline, current, current + params.window_days * 24)
         IN  (IF Len(window) >= params.min_events_per_window THEN <<window>> ELSE <<>>)
             \o TimeWindowsFromInclusive(timeline, current + params.step_days * 24,
                                         end_date, params)

\* A window kept only with more than min_events_per_window events.
RECURSIVE TimeWindowsFromAboveMin(_, _, _, _)
TimeWindowsFromAboveMin(timeline, current, end_date, params) ==
    IF ~(current < end_date) THEN <<>>
    ELSE LET window == RowsDatedIn(timeline, current, current + params.window_days * 24)
         IN  (IF Len(window) > params.min_events_per_window THEN <<window>> ELSE <<>>)
             \o TimeWindowsFromAboveMin(timeline, current + params.step_days * 24,
                                        end_date, params)

\* _create_time_windows: the loop "while current < end_date", from current.
RECURSIVE TimeWindowsFrom(_, _, _, _)
TimeWindowsFrom(timeline, current, end_date, params) ==
    IF ~(current < end_date) THEN <<>>
    ELSE LET window == RowsDatedIn(timeline, current, current + params.window_days * 24)
         IN  (IF Len(window) >= params.min_events_per_window THEN <<window>> ELSE <<>>)
             \o TimeWindowsFrom(timeline, current + params.step_days * 24, end_date,
                                params)

CreateTimeWindows(timeline, params) ==
    TimeWindowsFrom(timeline, MinDate(timeline), MaxDate(timeline), params)

\* _extract_window_topics: a window without a usable subject, or on which the
\* vectorizer fails, is left out; the keywords of the others are the TF-IDF
\* library's, here any of the keyword lists.  keywords[k] = <<>> marks window k as
\* left out.
RECURSIVE ExtractWindowTopics(_, _, _)
ExtractWindowTopics(windows, keywords, i) ==
    IF i > Len(windows) THEN <<>>
    ELSE (IF keywords[i] = <<>> THEN <<>>
          ELSE <<[window_id |-> i - 1,
                  start |-> MinDate(windows[i]),
                  keywords |-> keywords[i],
                  event_count |-> Len(windows[i])]>>)
         \o ExtractWindowTopics(windows, keywords, i + 1)

\* detect_transitions up to the call of _identify_transitions: the early returns,
\* the windows and their topics.
DetectTransitions ==
    /\ phase_pc = "idle"
    /\ IF Len(timeline_df) < phase_params.min_events_per_window
       THEN /\ phase_pc' = "done"
            /\ UNCHANGED window_topics
       ELSE LET windows == CreateTimeWindows(timeline_df, phase_params)
            IN  IF Len(windows) < 2
                THEN /\ phase_pc' = "done"
                     /\ UNCHANGED window_topics
                ELSE \E keywords \in [1..Len(windows) -> PhaseKeywordLists \cup {<<>>}] :
                        /\ window_topics' = ExtractWindowTopics(windows, keywords, 1)
                        /\ phase_pc' = IF Len(window_topics') < 2 THEN "done"
                                       ELSE "topics"
    /\ transitions' = <<>>
    /\ phase_i' = 2
    /\ UNCHANGED <<infer_keywords, infer_name, phase_params, inputVars, graphVars, influenceVars, burstVars,
                   handoffVars, roleTransVars, milestoneVars, giniVars, roleVars>>

(***************************************************************************)
(* HandoffDetector.detect_role_transitions                                 *)
(***************************************************************************)
\* influence_df[influence_df['role'].str.contains('Leader')]['participant']: of the
\* four roles _classify_role gives, the two that contain 'Leader'.
LeaderRoles == {"Active Leader", "Strategic Leader"}

Leaders(influence) ==
    {influence[k].participant :
        k \in {j \in DOMAIN influence : influence[j].role \in LeaderRoles}}

RECURSIVE RoleTransitionsFrom(_, _, _)
RoleTransitionsFrom(df, leaders, i) ==
    IF i > Len(df) THEN <<>>
    ELSE LET prev_participants == df[i - 1].participants
             curr_participants == df[i].participants
             leaders_left == (prev_participants \cap leaders) \ curr_participants
             new_people == curr_participants \ prev_participants
         IN  (IF leaders_left # {} /\ new_people # {}
              THEN <<[date |-> df[i].date,
                      leader_departed |-> leaders_left,
                      new_members |-> new_people,
                      confidence |-> Rat(8, 10)]>>
              ELSE <<>>)
             \o RoleTransitionsFrom(df, leaders, i + 1)

DetectRoleTransitions ==
    /\ role_pc = "idle"
    /\ role_transitions' =
          IF timeline_df = <<>> \/ influence_df = <<>> THEN <<>>
          ELSE RoleTransitionsFrom(SortByDate(timeline_df), Leaders(influence_df), 2)
    /\ role_pc' = "done"
    /\ UNCHANGED <<inputVars, graphVars, influenceVars, burstVars, handoffVars,
                   phaseVars, milestoneVars, giniVars, roleVars>>

(***************************************************************************)
(* MilestoneDetector.detect_milestones                                     *)
(***************************************************************************)
deliverable_keywords ==
    <<<<"p", "r", "e", "s", "e", "n", "t", "a", "t", "i", "o", "n">>,
      <<"d", "e", "m", "o">>,
      <<"r", "e", "v", "i", "e", "w">>,
      <<"s", "h", "o", "w", "c", "a", "s", "e">>,
      <<"d", "e", "l", "i", "v", "e", "r", "a", "b", "l", "e">>,
      <<"l", "a", "u", "n", "c", "h">>,
      <<"r", "e", "l", "e", "a", "s", "e">>,
      <<"d", "e", "l", "i", "v", "e", "r", "y">>,
      <<"f", "i", "n", "a", "l">>,
      <<"a", "p", "p", "r", "o", "v", "a", "l">>>>

planning_keywords ==
    <<<<"w", "o", "r", "k", "s", "h", "o", "p">>,
      <<"b", "r", "i", "e", "f", "i", "n", "g">>,
      <<"k", "i", "c", "k", "o", "f", "f">>,
      <<"s", "t", "r", "a", "t", "e", "g", "y">>,
      <<"p", "l", "a", "n", "n", "i", "n", "g">>,
      <<"b", "r", "a", "i", "n", "s", "t", "o", "r", "m">>,
      <<"d", "i", "s", "c", "o", "v", "e", "r", "y">>,
      <<"s", "c", "o", "p", "i", "n", "g">>,
      <<"r", "o", "a", "d", "m", "a", "p">>,
      <<"a", "l", "i", "g", "n", "m", "e", "n", "t">>>>

DefaultMilestoneParams ==
    [large_meeting_threshold |-> 7, follow_up_window_hours |-> 48, min_follow_ups |-> 3]

\* [kw for kw in keywords if kw in summary_lower]
RECURSIVE KeywordMatches(_, _)
KeywordMatches(keywords, summary_lower) ==
    IF keywords = <<>> THEN <<>>
    ELSE (IF IsSubstring(keywords[1], summary_lower) THEN <<keywords[1]>> ELSE <<>>)
         \o KeywordMatches(Tail(keywords), summary_lower)

\* str.split('@')[1]: what stands between the first '@' and the next one (or the end).
FirstAt(str) == CHOOSE k \in DOMAIN str : str[k] = "@" /\ \A j \in 1..(k - 1) : str[j] # "@"

DomainOf(identity) ==
    LET rest == SubSeq(identity, FirstAt(identity) + 1, Len(identity))
    IN  IF HasAt(rest) THEN SubSeq(rest, 1, FirstAt(rest) - 1) ELSE rest

AttendeeOrgs(attendees) == {DomainOf(attendee) : attendee \in {a \in attendees : HasAt(a)}}

\* round(confidence, 3), in thousandths: the nearest thousandth, an exact half going
\* to the even one.
Round3(confidence) ==
    LET scaled == confidence.num * 1000
        floor == scaled \div confidence.den
        twice_rest == 2 * (scaled % confidence.den)
    IN  IF twice_rest > confidence.den THEN floor + 1
        ELSE IF twice_rest < confidence.den THEN floor
        ELSE IF floor % 2 = 0 THEN floor
        ELSE floor + 1

\* The rows dated at the lower end counted too.
CountRowsFromLow(timeline, low, high, types) ==
    Cardinality({k \in DOMAIN timeline :
                    /\ timeline[k].date >= low
                    /\ timeline[k].date <= high
                    /\ timeline[k].type \in types})

\* len(timeline_df[(date > low) & (date <= high) & type in types])
CountRows(timeline, low, high, types) ==
    Cardinality({k \in DOMAIN timeline :
                    /\ timeline[k].date > low
                    /\ timeline[k].date <= high
                    /\ timeline[k].type \in types})

AnyType == {"email", "meeting"}

IsLargeMeeting(meeting, params) ==
    Cardinality(meeting.attendees) >= params.large_meeting_threshold

\* _detect_decision_points, on the meetings from position i.
RECURSIVE DetectDecisionPoints(_, _, _, _)
DetectDecisionPoints(meetings, timeline, params, i) ==
    IF i > Len(meetings) THEN <<>>
    ELSE LET meeting == meetings[i]
             follow_up_end == meeting.start + params.follow_up_window_hours
             follow_ups == CountRows(timeline, meeting.start, follow_up_end, {"email"})
             calm_events == CountRows(timeline, follow_up_end, follow_up_end + 72,
                                      AnyType)
             attendee_count == Cardinality(meeting.attendees)
             confidence ==
                 RatAdd(RatAdd(RatMul(Rat(4, 10), RatMin(RatOne, Rat(follow_ups, 10))),
                               RatMul(Rat(4, 10),
                                      RatMin(RatOne, Rat(attendee_count, 15)))),
                        RatMul(Rat(2, 10),
                               RatSub(RatOne, RatMin(RatOne, Rat(calm_events, 3)))))
         IN  (IF /\ IsLargeMeeting(meeting, params)
                 /\ follow_ups >= params.min_follow_ups
                 /\ calm_events <= 3
              THEN <<[date |-> meeting.start, type |-> "decision_point",
                      title |-> meeting.summary, participants |-> meeting.attendees,
                      participant_count |-> attendee_count,
                      confidence |-> Round3(confidence),
                      follow_up_count |-> follow_ups, event_id |-> meeting.uid,
                      keywords |-> <<>>]>>
              ELSE <<>>)
             \o DetectDecisionPoints(meetings, timeline, params, i + 1)

\* Every meeting with a deliverable keyword kept, whatever its confidence.
RECURSIVE DetectDeliverablesNoThreshold(_, _)
DetectDeliverablesNoThreshold(meetings, i) ==
    IF i > Len(meetings) THEN <<>>
    ELSE LET meeting == meetings[i]
             keyword_matches == KeywordMatches(deliverable_keywords,
                                               Lower(meeting.summary))
             attendee_count == Cardinality(meeting.attendees)
             cross_org == Cardinality(AttendeeOrgs(meeting.attendees)) > 1
             confidence ==
                 RatAdd(RatAdd(RatMul(Rat(5, 10),
                                      RatMin(RatOne, Rat(Len(keyword_matches), 2))),
                               RatMul(Rat(3, 10),
                                      RatMin(RatOne, Rat(attendee_count, 10)))),
                        RatMul(Rat(2, 10), IF cross_org THEN RatOne ELSE Rat(5, 10)))
         IN  (IF keyword_matches # <<>>
              THEN <<[date |-> meeting.start, type |-> "deliverable",
                      title |-> meeting.summary, participants |-> meeting.attendees,
                      participant_count |-> attendee_count,
                      confidence |-> Round3(confidence),
                      follow_up_count |-> 0, event_id |-> meeting.uid,
                      keywords |-> keyword_matches]>>
              ELSE <<>>)
             \o DetectDeliverablesNoThreshold(meetings, i + 1)

\* _detect_deliverables, on the meetings from position i.  The timeline is not read.
RECURSIVE DetectDeliverables(_, _)
DetectDeliverables(meetings, i) ==
    IF i > Len(meetings) THEN <<>>
    ELSE LET meeting == meetings[i]
             keyword_matches == KeywordMatches(deliverable_keywords,
                                               Lower(meeting.summary))
             attendee_count == Cardinality(meeting.attendees)
             cross_org == Cardinality(AttendeeOrgs(meeting.attendees)) > 1
             confidence ==
                 RatAdd(RatAdd(RatMul(Rat(5, 10),
                                      RatMin(RatOne, Rat(Len(keyword_matches), 2))),
                               RatMul(Rat(3, 10),
                                      RatMin(RatOne, Rat(attendee_count, 10)))),
                        RatMul(Rat(2, 10), IF cross_org THEN RatOne ELSE Rat(5, 10)))
         IN  (IF keyword_matches # <<>> /\ RatLeq(Rat(5, 10), confidence)
              THEN <<[date |-> meeting.start, type |-> "deliverable",
                      title |-> meeting.summary, participants |-> meeting.attendees,
                      participant_count |-> attendee_count,
                      confidence |-> Round3(confidence),
                      follow_up_count |-> 0, event_id |-> meeting.uid,
                      keywords |-> keyword_matches]>>
              ELSE <<>>)
             \o DetectDeliverables(meetings, i + 1)

\* One subsequent event is enough.
RECURSIVE DetectPlanningPhasesOneEvent(_, _, _)
DetectPlanningPhasesOneEvent(meetings, timeline, i) ==
    IF i > Len(meetings) THEN <<>>
    ELSE LET meeting == meetings[i]
             keyword_matches == KeywordMatches(planning_keywords,
                                               Lower(meeting.summary))
             attendee_count == Cardinality(meeting.attendees)
             subsequent_events == CountRows(timeline, meeting.start,
                                            meeting.start + 7 * 24, AnyType)
             confidence ==
                 RatAdd(RatAdd(RatMul(Rat(4, 10),
                                      RatMin(RatOne, Rat(Len(keyword_matches), 2))),
                               RatMul(Rat(3, 10),
                                      RatMin(RatOne, Rat(attendee_count, 12)))),
                        RatMul(Rat(3, 10),
                               RatMin(RatOne, Rat(subsequent_events, 10))))
         IN  (IF keyword_matches # <<>> /\ subsequent_events >= 1
              THEN <<[date |-> meeting.start, type |-> "planning_phase",
                      title |-> meeting.summary, participants |-> meeting.attendees,
                      participant_count |-> attendee_count,
                      confidence |-> Round3(confidence),
                      follow_up_count |-> subsequent_events,
                      event_id |-> meeting.uid,
                      keywords |-> keyword_matches]>>
              ELSE <<>>)
             \o DetectPlanningPhasesOneEvent(meetings, timeline, i + 1)

\* _detect_planning_phases, on the meetings from position i.
RECURSIVE DetectPlanningPhases(_, _, _)
DetectPlanningPhases(meetings, timeline, i) ==
    IF i > Len(meetings) THEN <<>>
    ELSE LET meeting == meetings[i]
             keyword_matches == KeywordMatches(planning_keywords,
                                               Lower(meeting.summary))
             attendee_count == Cardinality(meeting.attendees)
             subsequent_events == CountRows(timeline, meeting.start,
                                            meeting.start + 7 * 24, AnyType)
             confidence ==
                 RatAdd(RatAdd(RatMul(Rat(4, 10),
                                      RatMin(RatOne, Rat(Len(keyword_matches), 2))),
                               RatMul(Rat(3, 10),
                                      RatMin(RatOne, Rat(attendee_count, 12)))),
                        RatMul(Rat(3, 10),
                               RatMin(RatOne, Rat(subsequent_events, 10))))
         IN  (IF keyword_matches # <<>> /\ subsequent_events >= 2
              THEN <<[date |-> meeting.start, type |-> "planning_phase",
                      title |-> meeting.summary, participants |-> meeting.attendees,
                      participant_count |-> attendee_count,
                      confidence |-> Round3(confidence),
                      follow_up_count |-> subsequent_events,
                      event_id |-> meeting.uid,
                      keywords |-> keyword_matches]>>
              ELSE <<>>)
             \o DetectPlanningPhases(meetings, timeline, i + 1)

\* timeline_df['date'] is read for every large meeting and for every meeting with a
\* planning keyword; on a table without columns that lookup raises KeyError.
ReadsTimelineColumns(meetings, params) ==
    \E k \in DOMAIN meetings :
        \/ IsLargeMeeting(meetings[k], params)
        \/ KeywordMatches(planning_keywords, Lower(meetings[k].summary)) # <<>>

\* milestone_df['milestone_id'] = range(len(milestone_df))
WithMilestoneId(rows) ==
    [k \in DOMAIN rows |-> [milestone_id |-> k - 1] @@ rows[k]]

\* The three patterns concatenated, without the sort by date.
DetectMilestonesUnsorted ==
    /\ milestone_pc = "idle"
    /\ milestone_pc' = "done"
    /\ milestone_df' =
          WithMilestoneId(DetectDecisionPoints(calendar_events, timeline_df,
                                               milestone_params, 1)
                          \o DetectDeliverables(calendar_events, 1)
                          \o DetectPlanningPhases(calendar_events, timeline_df, 1))
    /\ UNCHANGED <<milestone_params, inputVars, graphVars, influenceVars, burstVars,
                   handoffVars, roleTransVars, phaseVars, giniVars, roleVars>>

\* The whole call: the three patterns, the sort by date and milestone_id (the
\* position in the result, from 0).
DetectMilestones ==
    /\ milestone_pc = "idle"
    /\ IF ~timeline_cols /\ ReadsTimelineColumns(calendar_events, milestone_params)
       THEN /\ milestone_pc' = "raised"
            /\ UNCHANGED milestone_df
       ELSE /\ milestone_pc' = "done"
            /\ milestone_df' =
                  WithMilestoneId(
                      SortByDate(DetectDecisionPoints(calendar_events, timeline_df,
                                                      milestone_params, 1)
                                 \o DetectDeliverables(calendar_events, 1)
                                 \o DetectPlanningPhases(calendar_events, timeline_df, 1)))
    /\ UNCHANGED <<milestone_params, inputVars, graphVars, influenceVars, burstVars,
                   handoffVars, roleTransVars, phaseVars, giniVars, roleVars>>

(***************************************************************************)
(* Initial values of the parts a specification leaves alone.               *)
(***************************************************************************)
DefaultBurstParams ==
    [window_hours |-> 48, min_events |-> 8, min_participants |-> 3,
     max_participants |-> 8]
DefaultBurstArgs ==
    [adaptive |-> FALSE, timeline_given |-> FALSE, fixed |-> DefaultBurstParams]
DefaultHandoffParams ==
    [time_gap_days |-> 14, min_new_participants |-> 2, turnover_threshold |-> Rat(7, 10)]
DefaultInfluenceParams ==
    [high_influence_threshold |-> 3000, high_activity_threshold |-> 10]
DefaultPhaseParams ==
    [window_days |-> 30, step_days |-> 15, similarity_threshold |-> Rat(4, 10),
     min_events_per_window |-> 3, top_keywords |-> 10]

InputsIdle ==
    /\ emails = <<>>
    /\ calendar_events = <<>>
    /\ timeline_df = <<>>
    /\ timeline_cols = TRUE
    /\ timeline_pc = "done"
    /\ fault_at = "none"
GraphIdle ==
    /\ G_nodes = {}
    /\ G_edges = {}
    /\ person_nodes = {}
    /\ event_nodes = {}
    /\ temporal_edges = <<>>
    /\ graph_pc = "idle"
    /\ export_file = NoFile
    /\ imported_graph = NotImported
    /\ batch_graph = NoBatchGraph
InfluenceIdle ==
    /\ person_graph = {}
    /\ influence_params = DefaultInfluenceParams
    /\ influence_df = <<>>
    /\ influence_pc = "idle"
BurstIdle ==
    /\ burst_args = DefaultBurstArgs
    /\ burst_params = DefaultBurstParams
    /\ burst_timeline = <<>>
    /\ bursts = <<>>
    /\ burst_i = 1
    /\ burst_pc = "idle"
HandoffIdle ==
    /\ handoff_params = DefaultHandoffParams
    /\ handoff_rows = <<>>
    /\ handoffs = <<>>
    /\ handoff_i = 2
    /\ handoff_pc = "idle"
RoleTransIdle ==
    /\ role_transitions = <<>>
    /\ role_pc = "idle"
PhaseIdle ==
    /\ phase_params = DefaultPhaseParams
    /\ window_topics = <<>>
    /\ transitions = <<>>
    /\ phase_i = 2
    /\ phase_pc = "idle"
    /\ infer_keywords = <<>>
    /\ infer_name = NoName
MilestoneIdle ==
    /\ milestone_params = DefaultMilestoneParams
    /\ milestone_df = <<>>
    /\ milestone_pc = "idle"
GiniIdle ==
    /\ gini_values = <<>>
    /\ gini_result = NotRun
    /\ gini_pc = "idle"
RoleIdle ==
    /\ role_args = [influence |-> 0, activity |-> 0,
                    thresholds |-> DefaultInfluenceParams]
    /\ role_result = "none"
    /\ role_call_pc = "idle"

(***************************************************************************)
(* SpecBurst: detect_bursts over bounded timelines.                        *)
(***************************************************************************)
MaxBurstEvents == 4
MaxBurstGap == 3

DigitChars == <<"1", "2", "3", "4", "5", "6", "7", "8", "9">>
EventId(prefix, k) == <<prefix, DigitChars[k]>>

BurstEventKinds ==
    {[type |-> "email", participants |-> {Alice}],
     [type |-> "meeting", participants |-> {Bob, Carol}]}

BurstParamChoices ==
    {[window_hours |-> 5, min_events |-> 3, min_participants |-> 1,
      max_participants |-> 3],
     [window_hours |-> 3, min_events |-> 2, min_participants |-> 2,
      max_participants |-> 2]}

\* The date of row k: the first row is at the origin, each later row follows its
\* predecessor by gaps[k - 1] hours, so the table is in date order.
RECURSIVE DateFromGaps(_, _)
DateFromGaps(gaps, k) == IF k <= 1 THEN 0 ELSE gaps[k - 1] + DateFromGaps(gaps, k - 1)

InitBurst ==
    /\ \E n \in 0..MaxBurstEvents :
         \E gaps \in [1..(n - 1) -> 0..MaxBurstGap], kinds \in [1..n -> BurstEventKinds] :
            timeline_df = [k \in 1..n |->
                              [date |-> DateFromGaps(gaps, k),
                               type |-> kinds[k].type,
                               event_id |-> EventId("e", k),
                               participants |-> kinds[k].participants]]
    /\ timeline_cols = TRUE
    /\ timeline_pc = "done"
    /\ fault_at = "none"
    /\ emails = <<>>
    /\ calendar_events = <<>>
    /\ burst_params \in BurstParamChoices
    /\ burst_args = [adaptive |-> FALSE, timeline_given |-> FALSE, fixed |-> burst_params]
    /\ burst_timeline = <<>>
    /\ bursts = <<>>
    /\ burst_i = 1
    /\ burst_pc = "idle"
    /\ GraphIdle /\ InfluenceIdle /\ HandoffIdle /\ RoleTransIdle /\ PhaseIdle
    /\ MilestoneIdle /\ GiniIdle /\ RoleIdle

NextBurst == DetectBurstsBegin \/ DetectBurstsStep

SpecBurst == InitBurst /\ [][NextBurst]_vars

(***************************************************************************)
(* SpecGini: _calculate_gini over bounded lists of counts.                 *)
(***************************************************************************)
MaxGiniLen == 3
GiniCounts == {0, 1, 5, 58}

InitGini ==
    /\ gini_values \in SeqsUpTo(GiniCounts, MaxGiniLen)
    /\ gini_result = NotRun
    /\ gini_pc = "idle"
    /\ InputsIdle /\ GraphIdle /\ InfluenceIdle /\ BurstIdle /\ HandoffIdle
    /\ RoleTransIdle /\ PhaseIdle /\ MilestoneIdle /\ RoleIdle

NextGini == RunCalculateGini

SpecGini == InitGini /\ [][NextGini]_vars

(***************************************************************************)
(* SpecRole: _classify_role over bounded arguments.                        *)
(***************************************************************************)
MaxActivity == 13
RoleInfluenceChoices == {0, 1500, 2999, 3000, 3001, 5000, 9999, 10000}
RoleThresholdChoices ==
    {DefaultInfluenceParams,
     [high_influence_threshold |-> 5000, high_activity_threshold |-> 1]}

InitRole ==
    /\ role_args \in [influence : RoleInfluenceChoices, activity : 0..MaxActivity,
                      thresholds : RoleThresholdChoices]
    /\ role_result = "none"
    /\ role_call_pc = "idle"
    /\ InputsIdle /\ GraphIdle /\ InfluenceIdle /\ BurstIdle /\ HandoffIdle
    /\ RoleTransIdle /\ PhaseIdle /\ MilestoneIdle /\ GiniIdle

NextRole == RunClassifyRole

SpecRole == InitRole /\ [][NextRole]_vars

(***************************************************************************)
(* SpecHandoff: detect_handoffs over bounded timelines.                    *)
(***************************************************************************)
MaxHandoffEvents == 3

\* Gaps between consecutive rows, in hours: half a day, 14 days and 23 hours (14
\* whole days), 20 days.
HandoffGaps == {12, 24 * 14 + 23, 24 * 20}

HandoffParticipantChoices ==
    {{}, {Alice}, {Bob}, {Alice, Bob}, {Bob, Carol}, {Alice, Bob, Carol}}

HandoffParamChoices ==
    {DefaultHandoffParams,
     [time_gap_days |-> 14, min_new_participants |-> 1, turnover_threshold |-> Rat(1, 2)]}

InitHandoff ==
    /\ \E n \in 0..MaxHandoffEvents :
         \E gaps \in [1..(n - 1) -> HandoffGaps],
            people \in [1..n -> HandoffParticipantChoices] :
            timeline_df = [k \in 1..n |->
                              [date |-> DateFromGaps(gaps, k),
                               type |-> "email",
                               event_id |-> EventId("e", k),
                               participants |-> people[k]]]
    /\ timeline_cols = TRUE
    /\ timeline_pc = "done"
    /\ fault_at = "none"
    /\ emails = <<>>
    /\ calendar_events = <<>>
    /\ handoff_params \in HandoffParamChoices
    /\ handoff_rows = <<>>
    /\ handoffs = <<>>
    /\ handoff_i = 2
    /\ handoff_pc = "idle"
    /\ GraphIdle /\ InfluenceIdle /\ BurstIdle /\ RoleTransIdle /\ PhaseIdle
    /\ MilestoneIdle /\ GiniIdle /\ RoleIdle

NextHandoff == DetectHandoffsBegin \/ DetectHandoffsStep \/ DetectHandoffsFinish

SpecHandoff == InitHandoff /\ [][NextHandoff]_vars

(***************************************************************************)
(* SpecPhase: _identify_transitions over bounded lists of window topics.   *)
(***************************************************************************)
MaxWindows == 3

PhaseEventCounts == {3, 12}

PhaseThresholdChoices == {Rat(0, 1), Rat(4, 10), Rat(1, 1), Rat(3, 2)}

InitPhase ==
    /\ \E n \in 0..MaxWindows :
         \E kws \in [1..n -> PhaseKeywordLists], counts \in [1..n -> PhaseEventCounts] :
            window_topics = [k \in 1..n |->
                                [window_id |-> k - 1,
                                 start |-> (k - 1) * 15 * 24,
                                 keywords |-> kws[k],
                                 event_count |-> counts[k]]]
    /\ \E t \in PhaseThresholdChoices :
          phase_params = [window_days |-> 30, step_days |-> 15,
                          similarity_threshold |-> t,
                          min_events_per_window |-> 3, top_keywords |-> 10]
    /\ transitions = <<>>
    /\ phase_i = 2
    /\ phase_pc = "topics"
    /\ infer_keywords = <<>>
    /\ infer_name = NoName
    /\ InputsIdle /\ GraphIdle /\ InfluenceIdle /\ BurstIdle /\ HandoffIdle
    /\ RoleTransIdle /\ MilestoneIdle /\ GiniIdle /\ RoleIdle

NextPhase == IdentifyTransitionsStep \/ IdentifyTransitionsFinish

SpecPhase == InitPhase /\ [][NextPhase]_vars

(***************************************************************************)
(* SpecGraph: the pipeline from the loaded records to the influence table. *)
(***************************************************************************)
MaxEmails == 2
MaxMeetings == 1

\* The threads and meetings a run may load: start times 0, 2 and 50 hours (gaps of
\* 2, 48 and 50 hours), with and without common participants, with identities that
\* are not addresses, and an organizer who does not attend.
EmailTemplates ==
    {[first_date |-> 0, participants |-> {Alice, Bob}],
     [first_date |-> 2, participants |-> {Alice, Bob}],
     [first_date |-> 2, participants |-> {Carol}],
     [first_date |-> 50, participants |-> {Bob, Malformed}],
     [first_date |-> 50, participants |-> {Alice, Carol}]}

MeetingTemplates ==
    {[start |-> 2, organizer |-> NoOrganizer, attendees |-> {Alice, Bob}],
     [start |-> 2, organizer |-> Alice, attendees |-> {Carol}],
     [start |-> 50, organizer |-> Malformed, attendees |-> {Bob, Malformed}],
     [start |-> 10, organizer |-> Carol, attendees |-> {Alice, Carol}]}

InitGraph ==
    /\ \E n \in 0..MaxEmails :
         \E chosen \in [1..n -> EmailTemplates] :
            emails = [k \in 1..n |->
                         [thread_id |-> EventId("t", k),
                          first_date |-> chosen[k].first_date,
                          participants |-> chosen[k].participants]]
    /\ \E n \in 0..MaxMeetings :
         \E chosen \in [1..n -> MeetingTemplates] :
            calendar_events = [k \in 1..n |->
                                  [uid |-> EventId("u", k),
                                   start |-> chosen[k].start,
                                   organizer |-> chosen[k].organizer,
                                   attendees |-> chosen[k].attendees]]
    /\ timeline_df = <<>>
    /\ timeline_cols = TRUE
    /\ timeline_pc = "idle"
    /\ fault_at = "none"
    /\ GraphIdle /\ InfluenceIdle /\ BurstIdle /\ HandoffIdle /\ RoleTransIdle
    /\ PhaseIdle /\ MilestoneIdle /\ GiniIdle /\ RoleIdle

\* main: the timeline, then the graph, then (among the detectors) the influence table.
NextGraph ==
    \/ CreateUnifiedTimeline
    \/ (timeline_pc = "done" /\ BuildGraph)
    \/ (graph_pc = "done" /\ CalculateInfluence)

SpecGraph == InitGraph /\ [][NextGraph]_vars

(***************************************************************************)
(* SpecExport: a graph built from the loaded records, exported as JSON and *)
(* read back.                                                              *)
(***************************************************************************)
NextExport ==
    \/ BuildGraph
    \/ ExportGraph
    \/ ImportGraph

SpecExport == InitGraph /\ [][NextExport]_vars

(***************************************************************************)
(* SpecBatch: the graph of all loaded records and the graph of a part of   *)
(* them, each built on its own ProjectGraph.                               *)
(***************************************************************************)
NextBatch ==
    \/ BuildGraph
    \/ BuildGraphOnBatch

SpecBatch == InitGraph /\ [][NextBatch]_vars

(***************************************************************************)
(* SpecMissingInput: every detector called on an empty timeline and an     *)
(* empty graph, with any meeting list.                                     *)
(***************************************************************************)
MaxMissingInputMeetings == 2

SummaryFinalReview == <<"F", "i", "n", "a", "l", " ", "R", "e", "v", "i", "e", "w">>
SummaryDemo == <<"D", "e", "m", "o">>
SummaryKickoff == <<"K", "i", "c", "k", "o", "f", "f">>
SummarySync == <<"S", "y", "n", "c">>
SummaryLaunchPlanning == <<"L", "a", "u", "n", "c", "h", " ", "P", "l", "a", "n", "n", "i", "n", "g">>

MissingInputMeetingTemplates ==
    {[summary |-> SummaryFinalReview, attendees |-> {Alice, Bob}],
     [summary |-> SummaryDemo, attendees |-> {Alice, Carol}],
     [summary |-> SummaryKickoff, attendees |-> {Alice, Bob}],
     [summary |-> SummarySync, attendees |-> {Alice, Bob, Carol}],
     [summary |-> SummaryLaunchPlanning, attendees |-> {Bob}],
     [summary |-> SummarySync, attendees |-> {Malformed}]}

MissingInputThresholds == {3, 7}

\* The empty timeline is a table with its columns and no row, or a table without
\* columns (pd.DataFrame()).
InitMissingInput ==
    /\ emails = <<>>
    /\ \E n \in 0..MaxMissingInputMeetings :
         \E chosen \in [1..n -> MissingInputMeetingTemplates] :
            calendar_events = [k \in 1..n |->
                                  [uid |-> EventId("u", k), start |-> 24 * k,
                                   summary |-> chosen[k].summary,
                                   organizer |-> NoOrganizer,
                                   attendees |-> chosen[k].attendees]]
    /\ timeline_df = <<>>
    /\ timeline_cols \in BOOLEAN
    /\ timeline_pc = "done"
    /\ fault_at = "none"
    /\ \E threshold \in MissingInputThresholds :
          milestone_params = [large_meeting_threshold |-> threshold,
                              follow_up_window_hours |-> 48, min_follow_ups |-> 3]
    /\ milestone_df = <<>>
    /\ milestone_pc = "idle"
    /\ GraphIdle /\ InfluenceIdle /\ BurstIdle /\ HandoffIdle /\ RoleTransIdle
    /\ PhaseIdle /\ GiniIdle /\ RoleIdle

\* The detectors do not depend on one another, except detect_role_transitions,
\* which is handed the influence table.
NextMissingInput ==
    \/ DetectBurstsBegin
    \/ DetectMilestones
    \/ DetectTransitions
    \/ DetectHandoffsBegin
    \/ CalculateInfluence
    \/ (influence_pc = "done" /\ DetectRoleTransitions)

SpecMissingInput == InitMissingInput /\ [][NextMissingInput]_vars

(***************************************************************************)
(* SpecMilestone: detect_milestones on the timeline of bounded emails and  *)
(* meetings.                                                               *)
(***************************************************************************)
MaxMilestoneEmails == 4
MaxMilestoneMeetings == 2

\* The second meeting of the list starts at hour 100, the others at hour 150, inside
\* the 72 hours that follow its 48-hour follow-up window.
MilestoneStart(k) == IF k = 2 THEN 100 ELSE 150

\* Email dates at and around the ends of the windows of the meeting at hour 100:
\* follow-ups in (100, 148], calm period in (148, 220], planning window in (100, 268].
MilestoneEmailDates == <<100, 148, 149, 220, 221, 268, 269>>

MilestoneMeetingTemplates ==
    {[summary |-> SummaryFinalReview, attendees |-> {Alice, Bob}],
     [summary |-> SummaryDemo, attendees |-> {Alice, Carol}],
     [summary |-> SummaryLaunchPlanning, attendees |-> {Alice, Bob, Carol}],
     [summary |-> SummarySync, attendees |-> {Alice, Bob, Carol}],
     [summary |-> SummaryKickoff, attendees |-> {Alice, Malformed}]}

InitMilestone ==
    /\ \E n \in 0..MaxMilestoneEmails :
         \E slots \in [1..n -> DOMAIN MilestoneEmailDates] :
            /\ \A k \in 1..(n - 1) : slots[k] <= slots[k + 1]
            /\ emails = [k \in 1..n |->
                            [thread_id |-> EventId("t", k),
                             first_date |-> MilestoneEmailDates[slots[k]],
                             participants |-> {Alice, Bob}]]
    /\ \E n \in 0..MaxMilestoneMeetings :
         \E chosen \in [1..n -> MilestoneMeetingTemplates] :
            calendar_events = [k \in 1..n |->
                                  [uid |-> EventId("u", k),
                                   start |-> MilestoneStart(k),
                                   summary |-> chosen[k].summary,
                                   organizer |-> NoOrganizer,
                                   attendees |-> chosen[k].attendees]]
    /\ timeline_df = <<>>
    /\ timeline_cols = TRUE
    /\ timeline_pc = "idle"
    /\ fault_at = "none"
    /\ milestone_params = [large_meeting_threshold |-> 3,
                           follow_up_window_hours |-> 48, min_follow_ups |-> 1]
    /\ milestone_df = <<>>
    /\ milestone_pc = "idle"
    /\ GraphIdle /\ InfluenceIdle /\ BurstIdle /\ HandoffIdle /\ RoleTransIdle
    /\ PhaseIdle /\ GiniIdle /\ RoleIdle

NextMilestone ==
    \/ CreateUnifiedTimeline
    \/ (timeline_pc = "done" /\ DetectMilestones)

SpecMilestone == InitMilestone /\ [][NextMilestone]_vars

(***************************************************************************)
(* SpecWindows: detect_transitions on bounded timelines, from the windows  *)
(* to the transitions.                                                     *)
(***************************************************************************)
MaxWindowEvents == 3

\* The longest timeline, in hours from the first event to the last.
MaxWindowSpan == 60

\* Hours between one event and the next.
WindowGaps == {0, 12, 24, 48}

WindowParamChoices ==
    {[window_days |-> 1, step_days |-> 1, min_events_per_window |-> 1],
     [window_days |-> 2, step_days |-> 1, min_events_per_window |-> 1],
     [window_days |-> 2, step_days |-> 1, min_events_per_window |-> 2],
     [window_days |-> 1, step_days |-> 2, min_events_per_window |-> 1]}

InitWindows ==
    /\ \E n \in 0..MaxWindowEvents :
         \E gaps \in [1..(n - 1) -> WindowGaps] :
            /\ DateFromGaps(gaps, n) <= MaxWindowSpan
            /\ timeline_df = [k \in 1..n |->
                                 [date |-> DateFromGaps(gaps, k),
                                  type |-> "email",
                                  event_id |-> EventId("e", k),
                                  participants |-> {Alice, Bob}]]
    /\ emails = <<>>
    /\ calendar_events = <<>>
    /\ timeline_cols = TRUE
    /\ timeline_pc = "done"
    /\ fault_at = "none"
    /\ \E choice \in WindowParamChoices :
          phase_params = [window_days |-> choice.window_days,
                          step_days |-> choice.step_days,
                          similarity_threshold |-> Rat(4, 10),
                          min_events_per_window |-> choice.min_events_per_window,
                          top_keywords |-> 10]
    /\ window_topics = <<>>
    /\ transitions = <<>>
    /\ phase_i = 2
    /\ phase_pc = "idle"
    /\ infer_keywords = <<>>
    /\ infer_name = NoName
    /\ GraphIdle /\ InfluenceIdle /\ BurstIdle /\ HandoffIdle /\ RoleTransIdle
    /\ MilestoneIdle /\ GiniIdle /\ RoleIdle

NextWindows ==
    \/ DetectTransitions
    \/ IdentifyTransitionsStep
    \/ IdentifyTransitionsFinish

SpecWindows == InitWindows /\ [][NextWindows]_vars

\* detect_transitions is one call: once begun it runs on to its return.
SpecWindowsFair == SpecWindows /\ WF_vars(NextWindows)

(***************************************************************************)
(* SpecInfer: calls of _infer_phase_name on keyword lists of up to         *)
(* MaxInferKeywords keywords.                                              *)
(***************************************************************************)
MaxInferKeywords == 2

\* Keywords as TF-IDF and the token counts yield them (any text), one or more for
\* every category test, one whose only category word is inside a longer word, one
\* in upper case, one with a digit and a hyphen, one of no category.
InferWords ==
    {KwKickoff, KwDesign, KwDemo, KwBudget,
     <<"t", "e", "c", "h", "n", "i", "c", "a", "l">>,
     <<"d", "e", "l", "i", "v", "e", "r", "y">>,
     <<"s", "c", "o", "p", "e">>,
     <<"l", "a", "u", "n", "c", "h">>,
     <<"s", "u", "p", "p", "o", "r", "t">>,
     <<"a", "l", "i", "v", "e">>,
     <<"D", "E", "M", "O">>,
     <<"q", "3", "-", "b", "u", "d", "g", "e", "t">>}

InitInfer ==
    /\ \E n \in 0..MaxInferKeywords : infer_keywords \in [1..n -> InferWords]
    /\ infer_name = NoName
    /\ phase_params = DefaultPhaseParams
    /\ window_topics = <<>>
    /\ transitions = <<>>
    /\ phase_i = 2
    /\ phase_pc = "idle"
    /\ InputsIdle /\ GraphIdle /\ InfluenceIdle /\ BurstIdle /\ HandoffIdle
    /\ RoleTransIdle /\ MilestoneIdle /\ GiniIdle /\ RoleIdle

NextInfer == RunInferPhaseName

SpecInfer == InitInfer /\ [][NextInfer]_vars

(***************************************************************************)
(* SpecAdaptive: a detector constructed on a timeline, then run.           *)
(***************************************************************************)
(***************************************************************************)
MaxAdaptiveEvents == 3

\* Gaps in hours that put two events on either side of each density boundary:
\* spans of 0, 1, 4, 5, 20, 21 and 30 whole days.
AdaptiveGaps == {0, 47, 96, 120, 480, 504, 720}

InitAdaptive ==
    /\ \E n \in 0..MaxAdaptiveEvents :
         \E gaps \in [1..(n - 1) -> AdaptiveGaps] :
            timeline_df = [k \in 1..n |->
                              [date |-> DateFromGaps(gaps, k),
                               type |-> "email",
                               event_id |-> EventId("e", k),
                               participants |-> {Alice, Bob}]]
    /\ emails = <<>>
    /\ calendar_events = <<>>
    /\ timeline_cols = TRUE
    /\ timeline_pc = "done"
    /\ fault_at = "none"
    /\ burst_args \in [adaptive : BOOLEAN, timeline_given : BOOLEAN,
                       fixed : {DefaultBurstParams}]
    /\ burst_params = DefaultBurstParams
    /\ burst_timeline = <<>>
    /\ bursts = <<>>
    /\ burst_i = 1
    /\ burst_pc = "new"
    /\ GraphIdle /\ InfluenceIdle /\ HandoffIdle /\ RoleTransIdle
    /\ PhaseIdle /\ MilestoneIdle /\ GiniIdle /\ RoleIdle

NextAdaptive ==
    \/ ConstructBurstDetector
    \/ DetectBurstsBegin
    \/ DetectBurstsStep

SpecAdaptive == InitAdaptive /\ [][NextAdaptive]_vars

(***************************************************************************)
(* SpecPipeline: main.  The stages run one after another inside a single   *)
(* try block; any exception ends the program (sys.exit(1)).  The sentiment *)
(* stage and the files written between the stages are left out.  fault_at  *)
(* names the detector call in which an unexpected exception is raised.     *)
(***************************************************************************)
MaxPipelineEmails == 4

Detectors == {"bursts", "milestones", "phases", "influence", "handoffs"}

\* The first thread at hour 0, the others from day 16 on, a day apart: with four
\* threads two 30-day windows hold three events each.
PipelineDate(k) == IF k = 1 THEN 0 ELSE 24 * (14 + k)

PipelineMeetingTemplates ==
    {[summary |-> SummaryFinalReview, organizer |-> Alice, attendees |-> {Alice, Bob}],
     [summary |-> SummarySync, organizer |-> NoOrganizer, attendees |-> {Bob, Carol}]}

InitPipeline ==
    /\ \E n \in 0..MaxPipelineEmails :
         \E last \in {{Alice, Bob}, {Bob, Carol}} :
            emails = [k \in 1..n |->
                         [thread_id |-> EventId("t", k),
                          first_date |-> PipelineDate(k),
                          participants |-> IF k = n THEN last ELSE {Alice, Bob}]]
    /\ \E n \in 0..1 :
         \E chosen \in [1..n -> PipelineMeetingTemplates] :
            calendar_events = [k \in 1..n |->
                                  [uid |-> EventId("u", k),
                                   start |-> 24 * 17 + 1,
                                   summary |-> chosen[k].summary,
                                   organizer |-> chosen[k].organizer,
                                   attendees |-> chosen[k].attendees]]
    /\ timeline_df = <<>>
    /\ timeline_cols = TRUE
    /\ timeline_pc = "idle"
    /\ fault_at \in Detectors \cup {"none"}
    /\ burst_args = [adaptive |-> TRUE, timeline_given |-> TRUE,
                     fixed |-> DefaultBurstParams]
    /\ burst_params = DefaultBurstParams
    /\ burst_timeline = <<>>
    /\ bursts = <<>>
    /\ burst_i = 1
    /\ burst_pc = "new"
    /\ GraphIdle /\ InfluenceIdle /\ HandoffIdle /\ RoleTransIdle
    /\ PhaseIdle /\ MilestoneIdle /\ GiniIdle /\ RoleIdle

\* CollaborationBurstDetector(adaptive=True, timeline_df=timeline_df), then
\* detect_bursts(timeline_df).
MainDetectBursts ==
    /\ graph_pc = "done"
    /\ IF fault_at = "bursts"
       THEN /\ burst_pc = "new"
            /\ burst_pc' = "raised"
            /\ UNCHANGED <<burst_args, burst_params, burst_timeline, bursts, burst_i,
                           inputVars, graphVars, influenceVars, handoffVars,
                           roleTransVars, phaseVars, milestoneVars, giniVars, roleVars>>
       ELSE ConstructBurstDetector \/ DetectBurstsBegin \/ DetectBurstsStep

\* MilestoneDetector().detect_milestones(calendar_events, timeline_df).
MainDetectMilestones ==
    /\ burst_pc = "done"
    /\ IF fault_at = "milestones"
       THEN /\ milestone_pc = "idle"
            /\ milestone_pc' = "raised"
            /\ UNCHANGED <<milestone_params, milestone_df, inputVars, graphVars,
                           influenceVars, burstVars, handoffVars, roleTransVars,
                           phaseVars, giniVars, roleVars>>
       ELSE DetectMilestones

\* PhaseTransitionDetector().detect_transitions(timeline_df).
MainDetectTransitions ==
    /\ milestone_pc = "done"
    /\ IF fault_at = "phases"
       THEN /\ phase_pc = "idle"
            /\ phase_pc' = "raised"
            /\ UNCHANGED <<infer_keywords, infer_name, phase_params, window_topics, transitions, phase_i, inputVars,
                           graphVars, influenceVars, burstVars, handoffVars,
                           roleTransVars, milestoneVars, giniVars, roleVars>>
       ELSE DetectTransitions \/ IdentifyTransitionsStep \/ IdentifyTransitionsFinish

\* InfluenceMapper().calculate_influence(G, timeline_df).
MainCalculateInfluence ==
    /\ phase_pc = "done"
    /\ IF fault_at = "influence"
       THEN /\ influence_pc = "idle"
            /\ influence_pc' = "raised"
            /\ UNCHANGED <<person_graph, influence_params, influence_df, inputVars,
                           graphVars, burstVars, handoffVars, roleTransVars, phaseVars,
                           milestoneVars, giniVars, roleVars>>
       ELSE CalculateInfluence

\* HandoffDetector().detect_handoffs(timeline_df).
MainDetectHandoffs ==
    /\ influence_pc = "done"
    /\ IF fault_at = "handoffs"
       THEN /\ handoff_pc = "idle"
            /\ handoff_pc' = "raised"
            /\ UNCHANGED <<handoff_params, handoff_rows, handoffs, handoff_i, inputVars,
                           graphVars, influenceVars, burstVars, roleTransVars,
                           phaseVars, milestoneVars, giniVars, roleVars>>
       ELSE DetectHandoffsBegin \/ DetectHandoffsStep \/ DetectHandoffsFinish

NextPipeline ==
    \/ CreateUnifiedTimeline
    \/ (timeline_pc = "done" /\ BuildGraph)
    \/ MainDetectBursts
    \/ MainDetectMilestones
    \/ MainDetectTransitions
    \/ MainCalculateInfluence
    \/ MainDetectHandoffs

SpecPipeline == InitPipeline /\ [][NextPipeline]_vars

(***************************************************************************)
(* SpecObservers: the detectors of main run in any interleaving on the     *)
(* timeline and the graph that main built.                                 *)
(***************************************************************************)
MaxObserverEmails == 2

\* The first thread at hour 0, the others from day 52 on, a day apart.
ObserverDate(k) == IF k = 1 THEN 0 ELSE 24 * (50 + k)

\* Two meetings on days 54 and 55: with two threads the last two 30-day windows hold
\* three events each, and the events are sparse enough for the 30-day burst window.
ObserverMeetings ==
    <<[uid |-> EventId("u", 1), start |-> 24 * 54 + 1, summary |-> SummaryFinalReview,
       organizer |-> Alice, attendees |-> {Alice, Bob}],
      [uid |-> EventId("u", 2), start |-> 24 * 55 + 1, summary |-> SummarySync,
       organizer |-> NoOrganizer, attendees |-> {Bob, Carol}]>>

\* The library results of these runs: keyword lists of one keyword, and
\* PageRank scores equal for all persons with the sort leaving the rows in the order
\* Alice, Bob, Carol.
ObserverKeywordLists == {<<KwDesign>>, <<KwBudget>>}

ObserverPersonOrder == <<Alice, Bob, Carol>>

EqualScoresInPersonOrder(rows) ==
    /\ \A j, k \in DOMAIN rows : rows[j].influence_score = rows[k].influence_score
    /\ \A j, k \in DOMAIN rows :
          j < k => \E a, b \in DOMAIN ObserverPersonOrder :
                      /\ a < b
                      /\ rows[j].participant = ObserverPersonOrder[a]
                      /\ rows[k].participant = ObserverPersonOrder[b]

InitObservers ==
    /\ \E n \in 0..MaxObserverEmails :
         \E last \in {{Alice, Bob}, {Bob, Carol}} :
            emails = [k \in 1..n |->
                         [thread_id |-> EventId("t", k),
                          first_date |-> ObserverDate(k),
                          participants |-> IF k = n THEN last ELSE {Alice, Bob}]]
    /\ calendar_events = ObserverMeetings
    /\ timeline_df = <<>>
    /\ timeline_cols = TRUE
    /\ timeline_pc = "idle"
    /\ fault_at = "none"
    /\ burst_args = [adaptive |-> TRUE, timeline_given |-> TRUE,
                     fixed |-> DefaultBurstParams]
    /\ burst_params = DefaultBurstParams
    /\ burst_timeline = <<>>
    /\ bursts = <<>>
    /\ burst_i = 1
    /\ burst_pc = "new"
    /\ GraphIdle /\ InfluenceIdle /\ HandoffIdle /\ RoleTransIdle
    /\ PhaseIdle /\ MilestoneIdle /\ GiniIdle /\ RoleIdle

\* main builds the timeline and the graph; then every detector may take its next
\* step at any time.
NextObservers ==
    \/ CreateUnifiedTimeline
    \/ (timeline_pc = "done" /\ BuildGraph)
    \/ /\ graph_pc = "done"
       /\ \/ ConstructBurstDetector
          \/ DetectBurstsBegin
          \/ DetectBurstsStep
          \/ DetectMilestones
          \/ /\ DetectTransitions
             /\ \A k \in DOMAIN window_topics' :
                    window_topics'[k].keywords \in ObserverKeywordLists
          \/ IdentifyTransitionsStep
          \/ IdentifyTransitionsFinish
          \/ (CalculateInfluence /\ EqualScoresInPersonOrder(influence_df'))
          \/ DetectHandoffsBegin
          \/ DetectHandoffsStep
          \/ DetectHandoffsFinish

SpecObservers == InitObservers /\ [][NextObservers]_vars

(***************************************************************************)
(* SpecScans: the graph built and the bursts detected on the same records, *)
(* with burst windows short enough to end before the last event.           *)
(***************************************************************************)
ScanBurstParams ==
    {[window_hours |-> 48, min_events |-> 2, min_participants |-> 1,
      max_participants |-> 3],
     [window_hours |-> 8, min_events |-> 2, min_participants |-> 2,
      max_participants |-> 4]}

InitScans ==
    /\ \E n \in 0..MaxEmails :
         \E chosen \in [1..n -> EmailTemplates] :
            emails = [k \in 1..n |->
                         [thread_id |-> EventId("t", k),
                          first_date |-> chosen[k].first_date,
                          participants |-> chosen[k].participants]]
    /\ \E n \in 0..MaxMeetings :
         \E chosen \in [1..n -> MeetingTemplates] :
            calendar_events = [k \in 1..n |->
                                  [uid |-> EventId("u", k),
                                   start |-> chosen[k].start,
                                   organizer |-> chosen[k].organizer,
                                   attendees |-> chosen[k].attendees]]
    /\ timeline_df = <<>>
    /\ timeline_cols = TRUE
    /\ timeline_pc = "idle"
    /\ fault_at = "none"
    /\ burst_params \in ScanBurstParams
    /\ burst_args = [adaptive |-> FALSE, timeline_given |-> FALSE, fixed |-> burst_params]
    /\ burst_timeline = <<>>
    /\ bursts = <<>>
    /\ burst_i = 1
    /\ burst_pc = "idle"
    /\ GraphIdle /\ InfluenceIdle /\ HandoffIdle /\ RoleTransIdle /\ PhaseIdle
    /\ MilestoneIdle /\ GiniIdle /\ RoleIdle

\* main: the timeline, then the graph, then detect_bursts.
NextScans ==
    \/ CreateUnifiedTimeline
    \/ (timeline_pc = "done" /\ BuildGraph)
    \/ (graph_pc = "done" /\ (DetectBurstsBegin \/ DetectBurstsStep))

SpecScans == InitScans /\ [][NextScans]_vars

(***************************************************************************)
(* Claims.                                                                 *)
(***************************************************************************)
IsUniformPositive(values) ==
    /\ values # <<>>
    /\ \A k \in DOMAIN values : values[k] = values[1] /\ values[k] > 0

\* C2: _calculate_gini returns 0 for equal positive counts, lies in [0,1] for every
\* non-empty list of non-negative counts, and for the skewed list 58, 1, 1 (one
\* participant holds almost all events) is positive and near (n-1)/n = 2/3.
C2_GiniInUnitInterval ==
    gini_pc = "done" =>
        /\ IsUniformPositive(gini_values) => RatEq(gini_result, RatZero)
        /\ gini_values # <<>> =>
              RatLeq(RatZero, gini_result) /\ RatLeq(gini_result, RatOne)
        /\ SortedAsc(gini_values) = <<1, 1, 58>> =>
              RatLess(Rat(1, 2), gini_result) /\ RatLeq(gini_result, Rat(2, 3))

BurstOverlap(a, b) ==
    Max(0, Min(a.end_date, b.end_date) - Max(a.start_date, b.start_date))
BurstDuration(a) == a.end_date - a.start_date

\* C3 as stated: no two bursts of one run overlap more than 70% of either one's
\* duration.
C3_NoMutualOverlap ==
    \A a, b \in DOMAIN bursts :
        a # b => /\ 10 * BurstOverlap(bursts[a], bursts[b]) <= 7 * BurstDuration(bursts[a])
                 /\ 10 * BurstOverlap(bursts[a], bursts[b]) <= 7 * BurstDuration(bursts[b])

\* C3 as amended: of two bursts of one run, the overlap is at most 70% of the
\* duration of the one accepted later.
C3_OverlapWithinLater ==
    \A a, b \in DOMAIN bursts :
        a < b => 10 * BurstOverlap(bursts[a], bursts[b]) <= 7 * BurstDuration(bursts[b])

C3_Witness ==
    /\ burst_pc = "done"
    /\ \E a, b \in DOMAIN bursts :
          a < b /\ BurstOverlap(bursts[a], bursts[b]) > 0

\* C4: every burst has start_date <= end_date, event_count = len(trigger_events) >=
\* min_events, a number of distinct participants within [min_participants,
\* max_participants], and its trigger events are a contiguous run of the date-sorted
\* timeline that begins at start_date and holds no event later than start_date +
\* window_hours.
C4_BurstWellFormed ==
    \A b \in DOMAIN bursts :
        LET burst == bursts[b] IN
        /\ burst.start_date <= burst.end_date
        /\ burst.event_count = Len(burst.trigger_events)
        /\ burst.event_count >= burst_params.min_events
        /\ Cardinality(burst.participants) >= burst_params.min_participants
        /\ Cardinality(burst.participants) <= burst_params.max_participants
        /\ \E i, j \in DOMAIN burst_timeline :
              /\ i <= j
              /\ burst.trigger_events =
                    [k \in 1..(j - i + 1) |-> burst_timeline[i + k - 1].event_id]
              /\ burst.start_date = burst_timeline[i].date
              /\ burst.end_date = burst_timeline[j].date
              /\ \A k \in i..j :
                    burst_timeline[k].date <= burst.start_date + burst_params.window_hours
              /\ burst.participants = UNION {burst_timeline[k].participants : k \in i..j}

C4_Witness ==
    /\ burst_pc = "done"
    /\ \E b \in DOMAIN bursts :
          /\ bursts[b].event_count < Len(burst_timeline)
          /\ bursts[b].start_date < bursts[b].end_date

Roles == {"Active Leader", "Strategic Leader", "Executor", "Contributor"}

\* C9: _classify_role returns exactly one role for every input, the one the role
\* matrix gives: Active Leader for influence and activity both at or above their
\* thresholds, Strategic Leader for high influence alone, Executor for high activity
\* alone, else Contributor; (0.05, 12) under thresholds (0.03, 10) is Active Leader.
C9_RoleMatrix ==
    role_call_pc = "done" =>
        LET hi == role_args.influence >= role_args.thresholds.high_influence_threshold
            ha == role_args.activity >= role_args.thresholds.high_activity_threshold
        IN  /\ role_result \in Roles
            /\ (hi /\ ha) <=> role_result = "Active Leader"
            /\ (hi /\ ~ha) <=> role_result = "Strategic Leader"
            /\ (~hi /\ ha) <=> role_result = "Executor"
            /\ (~hi /\ ~ha) <=> role_result = "Contributor"
            /\ (/\ role_args.influence = 5000
                /\ role_args.activity = 12
                /\ role_args.thresholds = DefaultInfluenceParams)
               => role_result = "Active Leader"

C9_Witness ==
    /\ role_call_pc = "done"
    /\ role_args.influence = 5000
    /\ role_args.activity = 12
    /\ role_args.thresholds = DefaultInfluenceParams
    /\ role_result = "Active Leader"

\* The type the rule priority gives a changed pair, "none" when no rule matches.
FirstMatchingRule(new_count, departed_count, prev_count, gap_days, params) ==
    IF gap_days > params.time_gap_days /\ new_count >= 1 THEN "gap_resumption"
    ELSE IF new_count >= params.min_new_participants THEN "team_expansion"
    ELSE IF /\ RatLeq(params.turnover_threshold,
                      IF prev_count > 0 THEN Rat(departed_count, prev_count) ELSE RatZero)
            /\ new_count >= 1 THEN "team_turnover"
    ELSE IF departed_count >= 1 /\ new_count = 0 THEN "departure"
    ELSE "none"

\* C5: each consecutive pair yields at most one record, whose handoff_type is the
\* first matching rule in the order gap_resumption, team_expansion, team_turnover,
\* departure; a gap above time_gap_days with at least one new person is always
\* gap_resumption, never team_expansion; identical participant sets yield nothing.
C5_FirstMatchWins ==
    [][(handoff_pc = "scan" /\ handoff_i' = handoff_i + 1) =>
        LET prev == handoff_rows[handoff_i - 1].participants
            curr == handoff_rows[handoff_i].participants
            new_count == Cardinality(curr \ prev)
            departed_count == Cardinality(prev \ curr)
            gap_days == (handoff_rows[handoff_i].date
                           - handoff_rows[handoff_i - 1].date) \div 24
            rule == FirstMatchingRule(new_count, departed_count, Cardinality(prev),
                                      gap_days, handoff_params)
        IN  /\ Len(handoffs') <= Len(handoffs) + 1
            /\ SubSeq(handoffs', 1, Len(handoffs)) = handoffs
            /\ prev = curr => handoffs' = handoffs
            /\ (prev # curr /\ rule = "none") => handoffs' = handoffs
            /\ (prev # curr /\ rule # "none") =>
                  /\ Len(handoffs') = Len(handoffs) + 1
                  /\ handoffs'[Len(handoffs')].handoff_type = rule
            /\ (gap_days > handoff_params.time_gap_days /\ new_count >= 1) =>
                  /\ Len(handoffs') = Len(handoffs) + 1
                  /\ handoffs'[Len(handoffs')].handoff_type = "gap_resumption"
    ]_vars

C5_Witness ==
    /\ handoff_pc = "done"
    /\ \E k \in DOMAIN handoffs :
          /\ handoffs[k].handoff_type = "gap_resumption"
          /\ handoffs[k].time_gap_days = 20
          /\ handoffs[k].new_count >= handoff_params.min_new_participants
    /\ \E k \in DOMAIN handoffs :
          /\ handoffs[k].handoff_type = "gap_resumption"
          /\ handoffs[k].time_gap_days = 20
          /\ handoffs[k].new_count = 1

IsPhaseStep == phase_pc = "topics" /\ phase_i' = phase_i + 1

\* C7 as stated: the similarity is symmetric and within [0,1], and two consecutive
\* windows with identical keyword sets have similarity 1 and add no transition,
\* whatever the threshold.
C7_IdenticalNeverTransition ==
    [][IsPhaseStep =>
        LET set1 == Range(window_topics[phase_i - 1].keywords)
            set2 == Range(window_topics[phase_i].keywords)
        IN  /\ RatEq(JaccardSimilarity(set1, set2), JaccardSimilarity(set2, set1))
            /\ RatLeq(RatZero, JaccardSimilarity(set1, set2))
            /\ RatLeq(JaccardSimilarity(set1, set2), RatOne)
            /\ set1 = set2 =>
                  /\ RatEq(JaccardSimilarity(set1, set2), RatOne)
                  /\ transitions' = transitions
    ]_vars

\* C7 as amended: the similarity is symmetric and within [0,1]; two consecutive
\* windows with identical (non-empty) keyword sets have similarity 1 and add no
\* transition when similarity_threshold <= 1, and add one when it is above 1.
C7_IdenticalNoTransitionUpToOne ==
    [][IsPhaseStep =>
        LET set1 == Range(window_topics[phase_i - 1].keywords)
            set2 == Range(window_topics[phase_i].keywords)
        IN  /\ RatEq(JaccardSimilarity(set1, set2), JaccardSimilarity(set2, set1))
            /\ RatLeq(RatZero, JaccardSimilarity(set1, set2))
            /\ RatLeq(JaccardSimilarity(set1, set2), RatOne)
            /\ (set1 = set2 /\ set1 # {}) =>
                  /\ RatEq(JaccardSimilarity(set1, set2), RatOne)
                  /\ RatLeq(phase_params.similarity_threshold, RatOne)
                        => transitions' = transitions
                  /\ RatLess(RatOne, phase_params.similarity_threshold)
                        => Len(transitions') = Len(transitions) + 1
    ]_vars

\* Identical non-empty keyword sets (in different orders) were compared under a
\* threshold of exactly 1 and nothing was emitted for them.
C7_Witness ==
    /\ phase_pc = "done"
    /\ RatEq(phase_params.similarity_threshold, RatOne)
    /\ Len(window_topics) = 2
    /\ window_topics[1].keywords # window_topics[2].keywords
    /\ Range(window_topics[1].keywords) = Range(window_topics[2].keywords)
    /\ transitions = <<>>


(***************************************************************************)
(* Graph and influence claims (SpecGraph).                                 *)
(***************************************************************************)
MembershipRelations == {"participated", "organized", "attended"}

\* The persons with a membership edge to an event.
MembersOf(event) ==
    {e.src : e \in {x \in G_edges : x.dst = event /\ x.relation \in MembershipRelations}}

\* The events two persons both have a membership edge to.
SharedEvents(person1, person2) ==
    {event \in event_nodes : {person1, person2} \subseteq MembersOf(event)}

\* The weight of the person subgraph's edge between two persons, 0 when not adjacent.
PersonGraphWeight(person1, person2) ==
    IF \E e \in person_graph : e.pair = {person1, person2}
    THEN (CHOOSE e \in person_graph : e.pair = {person1, person2}).weight
    ELSE 0

\* C1: once calculate_influence has run on the graph of build_graph, the weight of
\* the person subgraph's edge between any two persons is the number of events both
\* have a membership edge to, so persons sharing an event are adjacent.
C1_WeightIsSharedEvents ==
    (graph_pc = "done" /\ influence_pc = "done") =>
        \A person1, person2 \in person_nodes :
            person1 # person2 =>
                PersonGraphWeight(person1, person2)
                    = Cardinality(SharedEvents(person1, person2))

\* The loaded events as _create_temporal_links collects them: threads, then meetings.
LoadedEvents ==
    [k \in DOMAIN emails |->
        [id |-> emails[k].thread_id, date |-> emails[k].first_date,
         participants |-> emails[k].participants]]
    \o [k \in DOMAIN calendar_events |->
        [id |-> calendar_events[k].uid, date |-> calendar_events[k].start,
         participants |-> calendar_events[k].attendees]]

\* Start-time order: earlier start first, equal starts in the order collected.
PrecedesInStartOrder(k1, k2) ==
    \/ LoadedEvents[k1].date < LoadedEvents[k2].date
    \/ (LoadedEvents[k1].date = LoadedEvents[k2].date /\ k1 < k2)

HasTemporalEdge(id1, id2) ==
    \E e \in G_edges : e.src = id1 /\ e.dst = id2 /\ e.relation = "temporal_proximity"

\* C6: after build_graph, a temporal_proximity edge from e1 to e2 exists exactly
\* when e1 precedes e2 in start-time order, the starts are at most 48 hours apart
\* and the participant sets intersect; the list of temporal edges agrees with it.
C6_TemporalEdgeIff ==
    graph_pc = "done" =>
        /\ \A k1, k2 \in DOMAIN LoadedEvents :
              HasTemporalEdge(LoadedEvents[k1].id, LoadedEvents[k2].id)
              <=> /\ k1 # k2
                  /\ PrecedesInStartOrder(k1, k2)
                  /\ LoadedEvents[k2].date - LoadedEvents[k1].date <= 48
                  /\ LoadedEvents[k1].participants \cap LoadedEvents[k2].participants # {}
        /\ \A id1, id2 \in event_nodes :
              HasTemporalEdge(id1, id2) <=> <<id1, id2>> \in Range(temporal_edges)
        /\ \A e \in G_edges :
              e.relation = "temporal_proximity" =>
                  e.src \in event_nodes /\ e.dst \in event_nodes

\* build_graph has linked two events exactly 48 hours apart, and has left unlinked a
\* pair 50 hours apart that shares a participant and a pair within the window that
\* shares none.
C6_Witness ==
    /\ graph_pc = "done"
    /\ \E k1, k2 \in DOMAIN LoadedEvents :
          /\ LoadedEvents[k2].date - LoadedEvents[k1].date = 48
          /\ HasTemporalEdge(LoadedEvents[k1].id, LoadedEvents[k2].id)
    /\ \E k1, k2 \in DOMAIN LoadedEvents :
          /\ LoadedEvents[k2].date - LoadedEvents[k1].date = 50
          /\ LoadedEvents[k1].participants \cap LoadedEvents[k2].participants # {}
          /\ ~HasTemporalEdge(LoadedEvents[k1].id, LoadedEvents[k2].id)
    /\ \E k1, k2 \in DOMAIN LoadedEvents :
          /\ k1 # k2
          /\ LoadedEvents[k2].date - LoadedEvents[k1].date \in 0..48
          /\ LoadedEvents[k1].participants \cap LoadedEvents[k2].participants = {}
          /\ ~HasTemporalEdge(LoadedEvents[k1].id, LoadedEvents[k2].id)

\* C8: the influence table has exactly one row per person node, its rank column is
\* 1..N in row order, and influence_score does not increase as rank increases, so
\* rank 1 holds a maximal score.
C8_RankingTotalOrder ==
    (graph_pc = "done" /\ influence_pc = "done") =>
        /\ Len(influence_df) = Cardinality(NodeIds(G_nodes, {"person"}))
        /\ {influence_df[k].participant : k \in DOMAIN influence_df}
               = NodeIds(G_nodes, {"person"})
        /\ \A k \in DOMAIN influence_df : influence_df[k].rank = k
        /\ \A k1, k2 \in DOMAIN influence_df :
              influence_df[k1].rank < influence_df[k2].rank =>
                  influence_df[k1].influence_score >= influence_df[k2].influence_score
        /\ \A k \in DOMAIN influence_df :
              influence_df[k].rank = 1 =>
                  \A k2 \in DOMAIN influence_df :
                      influence_df[k].influence_score >= influence_df[k2].influence_score

\* A table of three persons with two distinct scores, one of them held twice.
C8_Witness ==
    /\ graph_pc = "done"
    /\ influence_pc = "done"
    /\ Len(influence_df) = 3
    /\ influence_df[1].influence_score > influence_df[3].influence_score
    /\ \/ influence_df[1].influence_score = influence_df[2].influence_score
       \/ influence_df[2].influence_score = influence_df[3].influence_score

(***************************************************************************)
(* Missing input (SpecMissingInput).                                       *)
(***************************************************************************)
\* C10: on an empty timeline or an empty graph no detector raises and each one that
\* has returned has returned an empty result.
C10_EmptyInputEmptyResult ==
    (timeline_df = <<>> /\ G_nodes = {}) =>
        /\ milestone_pc # "raised"
        /\ burst_pc = "done" => bursts = <<>>
        /\ milestone_pc = "done" => milestone_df = <<>>
        /\ phase_pc = "done" => transitions = <<>>
        /\ handoff_pc = "done" => handoffs = <<>>
        /\ role_pc = "done" => role_transitions = <<>>
        /\ influence_pc = "done" => influence_df = <<>>

(***************************************************************************)
(* Adaptive burst parameters (SpecAdaptive).                               *)
(***************************************************************************)
SpanDays == Max((MaxDate(timeline_df) - MinDate(timeline_df)) \div 24, 1)

\* The parameter set the density buckets give for the timeline.
BucketParams ==
    IF timeline_df = <<>>
    THEN [window_hours |-> 168, min_events |-> 5, min_participants |-> 2,
          max_participants |-> 15]
    ELSE IF 10 * Len(timeline_df) < SpanDays
    THEN [window_hours |-> 720, min_events |-> 3, min_participants |-> 2,
          max_participants |-> 20]
    ELSE IF 2 * Len(timeline_df) < SpanDays
    THEN [window_hours |-> 336, min_events |-> 5, min_participants |-> 3,
          max_participants |-> 15]
    ELSE [window_hours |-> 168, min_events |-> 8, min_participants |-> 3,
          max_participants |-> 10]

DetectorPc(detector) ==
    CASE detector = "bursts" -> burst_pc
      [] detector = "milestones" -> milestone_pc
      [] detector = "phases" -> phase_pc
      [] detector = "influence" -> influence_pc
      [] detector = "handoffs" -> handoff_pc

MainEnded ==
    \/ handoff_pc = "done"
    \/ timeline_pc = "raised"
    \/ \E detector \in Detectors : DetectorPc(detector) = "raised"

C11_OneFailureDoesNotBlockOthers ==
    (MainEnded /\ fault_at \in Detectors /\ timeline_pc = "done")
        => \A detector \in Detectors \ {fault_at} : DetectorPc(detector) = "done"

(***************************************************************************)
(* C12.  Exporting a built graph with export_graph(format='json') and      *)
(* reading the written file back gives a graph with the same number of     *)
(* nodes, the same number of edges and the same relation on every edge,    *)
(* also when the graph holds event nodes and membership edges with         *)
(* timestamps.                                                             *)
(***************************************************************************)
C12_RoundTripPreservesGraph ==
    imported_graph.status # "none" =>
        /\ imported_graph.status = "loaded"
        /\ Cardinality(imported_graph.nodes) = Cardinality(G_nodes)
        /\ Cardinality(imported_graph.edges) = Cardinality(G_edges)
        /\ \A edge \in G_edges :
              \E read \in imported_graph.edges :
                 /\ read.src = edge.src
                 /\ read.dst = edge.dst
                 /\ read.relation = edge.relation

(***************************************************************************)
(* C13.  After build_graph on a fresh ProjectGraph there is a collaborated *)
(* edge p -> q exactly when p and q are distinct person nodes with a common*)
(* event; there is one such edge, its weight is the number of events both  *)
(* have a membership edge to (organizer and attendee of one meeting counts *)
(* once), and q -> p exists with the same weight.                          *)
(***************************************************************************)
CollaboratedEdges(person1, person2) ==
    {edge \in G_edges : /\ edge.relation = "collaborated"
                        /\ edge.src = person1
                        /\ edge.dst = person2}

C13_CollaboratedIffSharedEvents ==
    graph_pc = "done" =>
        /\ \A edge \in G_edges :
              edge.relation = "collaborated" => {edge.src, edge.dst} \subseteq person_nodes
        /\ \A person1 \in person_nodes, person2 \in person_nodes :
              /\ CollaboratedEdges(person1, person2) # {}
                    <=> (person1 # person2 /\ SharedEvents(person1, person2) # {})
              /\ Cardinality(CollaboratedEdges(person1, person2)) <= 1
              /\ \A edge \in CollaboratedEdges(person1, person2) :
                    /\ edge.attrs.weight = Cardinality(SharedEvents(person1, person2))
                    /\ \E back \in CollaboratedEdges(person2, person1) :
                          back.attrs.weight = edge.attrs.weight

\* A built graph with an organizer who also attends and has a collaborator, a pair
\* sharing two events or more, and a pair of persons sharing none.
C13_Witness ==
    /\ graph_pc = "done"
    /\ \E k \in DOMAIN calendar_events :
          /\ calendar_events[k].organizer \in calendar_events[k].attendees
          /\ \E person \in person_nodes :
                CollaboratedEdges(calendar_events[k].organizer, person) # {}
    /\ \E person1 \in person_nodes, person2 \in person_nodes :
          \E edge \in CollaboratedEdges(person1, person2) : edge.attrs.weight >= 2
    /\ \E person1 \in person_nodes, person2 \in person_nodes :
          person1 # person2 /\ CollaboratedEdges(person1, person2) = {}

(***************************************************************************)
(* C14.  For event batches E and E' with E a part of E', each built on a   *)
(* fresh ProjectGraph, the collaborated weight of every pair of persons in *)
(* build_graph(E') is at least the weight in build_graph(E), an absent     *)
(* edge counting as 0.                                                     *)
(***************************************************************************)
CollaboratedWeight(edges, person1, person2) ==
    LET found == {edge \in edges : /\ edge.relation = "collaborated"
                                   /\ edge.src = person1
                                   /\ edge.dst = person2}
    IN  IF found = {} THEN 0 ELSE (CHOOSE edge \in found : TRUE).attrs.weight

C14_WeightMonotone ==
    (graph_pc = "done" /\ batch_graph.built) =>
        \A person1 \in AllPeople(emails, calendar_events),
           person2 \in AllPeople(emails, calendar_events) :
              CollaboratedWeight(batch_graph.edges, person1, person2)
                  <= CollaboratedWeight(G_edges, person1, person2)

\* Both graphs built, the part smaller than the whole, with a pair whose weight grew,
\* a pair whose positive weight stayed, and a person of that pair with more events in
\* the whole.
C14_Witness ==
    /\ graph_pc = "done"
    /\ batch_graph.built
    /\ Len(batch_graph.emails) + Len(batch_graph.calendar_events)
          < Len(emails) + Len(calendar_events)
    /\ \E person1 \in person_nodes, person2 \in person_nodes :
          CollaboratedWeight(batch_graph.edges, person1, person2)
              < CollaboratedWeight(G_edges, person1, person2)
    /\ \E person1 \in person_nodes, person2 \in person_nodes :
          /\ CollaboratedWeight(batch_graph.edges, person1, person2) > 0
          /\ CollaboratedWeight(batch_graph.edges, person1, person2)
                = CollaboratedWeight(G_edges, person1, person2)
          /\ \E person3 \in person_nodes \ {person1, person2} :
                CollaboratedWeight(batch_graph.edges, person1, person3)
                    < CollaboratedWeight(G_edges, person1, person3)

(***************************************************************************)
(* C16.  Deduplication is greedy in ascending start index: a candidate     *)
(* that meets the burst criteria is discarded exactly when, for some burst *)
(* accepted before it, max(0, min(ends) - max(starts)) is more than 70% of *)
(* the candidate's own duration; otherwise it is appended; an accepted     *)
(* burst is never removed or replaced.                                     *)
(***************************************************************************)
CandidateAt(i) == MakeBurst(WindowEvents(burst_timeline, i, burst_params))

IsCandidateAt(i) ==
    MeetsBurstCriteria(WindowEvents(burst_timeline, i, burst_params), burst_params)

DuplicateOfAccepted(candidate) ==
    \E k \in DOMAIN bursts :
        10 * BurstOverlap(candidate, bursts[k]) > 7 * BurstDuration(candidate)

C16_GreedyDeduplication ==
    [][burst_pc = "scan" =>
          /\ Len(bursts') >= Len(bursts)
          /\ SubSeq(bursts', 1, Len(bursts)) = bursts
          /\ IF IsCandidateAt(burst_i) /\ ~DuplicateOfAccepted(CandidateAt(burst_i))
             THEN bursts' = Append(bursts, CandidateAt(burst_i))
             ELSE bursts' = bursts]_vars

\* A finished run that accepted a burst, discarded a later candidate as its
\* duplicate, and accepted a still later candidate that overlaps an accepted burst.
C16_Witness ==
    /\ burst_pc = "done"
    /\ \E i \in DOMAIN burst_timeline :
          /\ IsCandidateAt(i)
          /\ \A k \in DOMAIN bursts : bursts[k].start_date # CandidateAt(i).start_date
          /\ \E k \in DOMAIN bursts :
                /\ bursts[k].start_date < CandidateAt(i).start_date
                /\ 10 * BurstOverlap(CandidateAt(i), bursts[k])
                      > 7 * BurstDuration(CandidateAt(i))
    /\ \E a, b \in DOMAIN bursts :
          /\ a < b
          /\ 2 * BurstOverlap(bursts[a], bursts[b]) > BurstDuration(bursts[b])

(***************************************************************************)
(* Milestones: what the claims expect of a meeting, stated on the loaded   *)
(* records and the timeline.                                               *)
(***************************************************************************)
\* The rows of milestone_df of one type for one meeting.
MilestoneRows(type, meeting) ==
    {k \in DOMAIN milestone_df : /\ milestone_df[k].type = type
                                 /\ milestone_df[k].event_id = meeting.uid}

\* The timeline events of the given types dated in (low, high].
EventsDatedIn(low, high, types) ==
    Cardinality({k \in DOMAIN timeline_df : /\ low < timeline_df[k].date
                                            /\ timeline_df[k].date <= high
                                            /\ timeline_df[k].type \in types})

FollowUpsOf(meeting) ==
    EventsDatedIn(meeting.start, meeting.start + milestone_params.follow_up_window_hours,
                  {"email"})

CalmEventsOf(meeting) ==
    EventsDatedIn(meeting.start + milestone_params.follow_up_window_hours,
                  meeting.start + milestone_params.follow_up_window_hours + 72,
                  {"email", "meeting"})

ExpectedDecisionPoint(meeting) ==
    /\ Cardinality(meeting.attendees) >= milestone_params.large_meeting_threshold
    /\ FollowUpsOf(meeting) >= milestone_params.min_follow_ups
    /\ CalmEventsOf(meeting) <= 3

\* The number of deliverable and of planning keywords in the subjects in use.
DeliverableKeywordsIn(summary) ==
    CASE summary = SummaryFinalReview -> 2
      [] summary = SummaryDemo -> 1
      [] summary = SummaryLaunchPlanning -> 1
      [] OTHER -> 0

PlanningKeywordsIn(summary) ==
    CASE summary = SummaryLaunchPlanning -> 1
      [] summary = SummaryKickoff -> 1
      [] OTHER -> 0

\* The domains of the identities in use; the malformed one has none.
OrgsOf(attendees) ==
    {IF attendee = Bob THEN "y" ELSE "x" : attendee \in attendees \cap {Alice, Bob, Carol}}

\* 0.5*min(1, matches/2) + 0.3*min(1, attendees/10) + 0.2*(1.0 if cross-org else
\* 0.5), in thousandths.
DeliverableThousandths(meeting) ==
    250 * Min(2, DeliverableKeywordsIn(meeting.summary))
    + 30 * Min(10, Cardinality(meeting.attendees))
    + (IF Cardinality(OrgsOf(meeting.attendees)) > 1 THEN 200 ELSE 100)

ExpectedDeliverable(meeting) ==
    /\ DeliverableKeywordsIn(meeting.summary) >= 1
    /\ DeliverableThousandths(meeting) >= 500

ExpectedPlanningPhase(meeting) ==
    /\ PlanningKeywordsIn(meeting.summary) >= 1
    /\ EventsDatedIn(meeting.start, meeting.start + 7 * 24, {"email", "meeting"}) >= 2

(***************************************************************************)
(* C17.  A meeting is reported as a decision_point exactly when it has at  *)
(* least large_meeting_threshold attendees, at least min_follow_ups email  *)
(* events dated in (start, start + follow_up_window_hours], and at most 3  *)
(* events of any type in the 72 hours after that window; the confidence of *)
(* the row lies in [0, 1].                                                 *)
(***************************************************************************)
C17_DecisionPointIff ==
    milestone_pc = "done" =>
        \A k \in DOMAIN calendar_events :
            LET meeting == calendar_events[k]
                rows == MilestoneRows("decision_point", meeting)
            IN  /\ rows # {} <=> ExpectedDecisionPoint(meeting)
                /\ \A r \in rows : /\ milestone_df[r].confidence >= 0
                                   /\ milestone_df[r].confidence <= 1000
                                   /\ milestone_df[r].follow_up_count = FollowUpsOf(meeting)

\* The meeting at hour 100 is a decision point with exactly three calm events, one of
\* them the other meeting, while an email dated at its start is not a follow-up; the
\* other meeting is large too but has no follow-up.
C17_Witness ==
    /\ milestone_pc = "done"
    /\ Len(calendar_events) = 2
    /\ MilestoneRows("decision_point", calendar_events[2]) # {}
    /\ CalmEventsOf(calendar_events[2]) = 3
    /\ \E k \in DOMAIN timeline_df :
          timeline_df[k].type = "email" /\ timeline_df[k].date = calendar_events[2].start
    /\ Cardinality(calendar_events[1].attendees) >= 3
    /\ MilestoneRows("decision_point", calendar_events[1]) = {}

(***************************************************************************)
(* C18.  A meeting is reported as a deliverable exactly when its subject   *)
(* holds a deliverable keyword (as a substring, whatever the case) and the *)
(* confidence 0.5*min(1, matches/2) + 0.3*min(1, attendees/10) + 0.2*(1.0  *)
(* if the attendee domains differ else 0.5) is at least 0.5; the           *)
(* confidence of every reported deliverable lies in [0.5, 1].              *)
(***************************************************************************)
C18_DeliverableIff ==
    milestone_pc = "done" =>
        \A k \in DOMAIN calendar_events :
            LET meeting == calendar_events[k]
                rows == MilestoneRows("deliverable", meeting)
            IN  /\ rows # {} <=> ExpectedDeliverable(meeting)
                /\ \A r \in rows :
                      /\ milestone_df[r].confidence = DeliverableThousandths(meeting)
                      /\ milestone_df[r].confidence >= 500
                      /\ milestone_df[r].confidence <= 1000
                      /\ Len(milestone_df[r].keywords)
                            = DeliverableKeywordsIn(meeting.summary)

\* One meeting reported as a deliverable, with a keyword written in capitals, and one
\* meeting with a deliverable keyword that is not reported.
C18_Witness ==
    /\ milestone_pc = "done"
    /\ Len(calendar_events) = 2
    /\ \E k1, k2 \in DOMAIN calendar_events :
          /\ MilestoneRows("deliverable", calendar_events[k1]) # {}
          /\ calendar_events[k1].summary = SummaryFinalReview
          /\ MilestoneRows("deliverable", calendar_events[k2]) = {}
          /\ DeliverableKeywordsIn(calendar_events[k2].summary) >= 1

(***************************************************************************)
(* C19.  A meeting is reported as a planning_phase exactly when its        *)
(* subject holds a planning keyword and at least 2 timeline events are     *)
(* dated after its start and at most 7 days after it, the meeting itself   *)
(* not being counted.                                                      *)
(***************************************************************************)
C19_PlanningPhaseIff ==
    milestone_pc = "done" =>
        \A k \in DOMAIN calendar_events :
            LET meeting == calendar_events[k]
                rows == MilestoneRows("planning_phase", meeting)
            IN  /\ rows # {} <=> ExpectedPlanningPhase(meeting)
                /\ \A r \in rows :
                      milestone_df[r].follow_up_count
                          = EventsDatedIn(meeting.start, meeting.start + 7 * 24,
                                          {"email", "meeting"})

\* A planning meeting at hour 100 reported with exactly two subsequent events, one of
\* them dated 7 days after it, and a planning meeting at hour 150 that is not reported:
\* it is followed by one event only.
C19_Witness ==
    /\ milestone_pc = "done"
    /\ Len(calendar_events) = 2
    /\ MilestoneRows("planning_phase", calendar_events[2]) # {}
    /\ EventsDatedIn(calendar_events[2].start, calendar_events[2].start + 7 * 24,
                     {"email", "meeting"}) = 2
    /\ \E k \in DOMAIN timeline_df :
          timeline_df[k].date = calendar_events[2].start + 7 * 24
    /\ PlanningKeywordsIn(calendar_events[1].summary) >= 1
    /\ MilestoneRows("planning_phase", calendar_events[1]) = {}
    /\ EventsDatedIn(calendar_events[1].start, calendar_events[1].start + 7 * 24,
                     {"email", "meeting"}) = 1

(***************************************************************************)
(* C20.  detect_milestones returns the rows of the three scans, none       *)
(* dropped or merged: their number is the sum of the three counts, a       *)
(* meeting that satisfies k patterns has k rows, the rows are in           *)
(* non-decreasing order of date, and milestone_id is 0..n-1 in that order. *)
(***************************************************************************)
ScannedRows ==
    DetectDecisionPoints(calendar_events, timeline_df, milestone_params, 1)
    \o DetectDeliverables(calendar_events, 1)
    \o DetectPlanningPhases(calendar_events, timeline_df, 1)

PatternsOf(meeting) ==
    (IF ExpectedDecisionPoint(meeting) THEN 1 ELSE 0)
    + (IF ExpectedDeliverable(meeting) THEN 1 ELSE 0)
    + (IF ExpectedPlanningPhase(meeting) THEN 1 ELSE 0)

C20_ConcatenatedSortedNumbered ==
    milestone_pc = "done" =>
        LET scanned == ScannedRows
        IN  /\ Len(milestone_df) = Len(scanned)
            /\ \A j \in DOMAIN scanned :
                  \E k \in DOMAIN milestone_df :
                     /\ milestone_df[k].type = scanned[j].type
                     /\ milestone_df[k].event_id = scanned[j].event_id
                     /\ milestone_df[k].date = scanned[j].date
            /\ \A k \in DOMAIN calendar_events :
                  Cardinality({r \in DOMAIN milestone_df :
                                  milestone_df[r].event_id = calendar_events[k].uid})
                      = PatternsOf(calendar_events[k])
            /\ \A k \in 1..(Len(milestone_df) - 1) :
                  milestone_df[k].date <= milestone_df[k + 1].date
            /\ \A k \in DOMAIN milestone_df : milestone_df[k].milestone_id = k - 1

\* A meeting with three rows, one per pattern, and a meeting listed before it, with a
\* later date, that has a row too: the scans do not yield the rows in date order.
C20_Witness ==
    /\ milestone_pc = "done"
    /\ Len(calendar_events) = 2
    /\ PatternsOf(calendar_events[2]) = 3
    /\ PatternsOf(calendar_events[1]) >= 1
    /\ Len(milestone_df) >= 4
    /\ calendar_events[1].start > calendar_events[2].start
    /\ milestone_df[1].event_id = calendar_events[2].uid
    /\ milestone_df[Len(milestone_df)].event_id = calendar_events[1].uid

(***************************************************************************)
(* Phase windows (SpecWindows): the candidate windows of the sliding       *)
(* window, stated on the timeline.                                         *)
(***************************************************************************)
StepHours == phase_params.step_days * 24
WindowHours == phase_params.window_days * 24

\* The start of the window of step k (k = 0, 1, ...).
CandidateStart(k) == MinDate(timeline_df) + k * StepHours

\* The steps of the sliding window: those whose start is before the latest date.
CandidateSteps ==
    IF timeline_df = <<>> THEN {}
    ELSE {k \in 0..((MaxDate(timeline_df) - MinDate(timeline_df)) \div StepHours) :
             CandidateStart(k) < MaxDate(timeline_df)}

EventsOfStep(k) ==
    {j \in DOMAIN timeline_df : /\ CandidateStart(k) <= timeline_df[j].date
                                /\ timeline_df[j].date < CandidateStart(k) + WindowHours}

RetainedSteps ==
    {k \in CandidateSteps :
        Cardinality(EventsOfStep(k)) >= phase_params.min_events_per_window}

\* The step of the retained window with the given window_id (its rank, from 0).
StepOfWindow(window_id) ==
    CHOOSE k \in RetainedSteps :
        Cardinality({earlier \in RetainedSteps : earlier < k}) = window_id

TopicSimilarity(i) ==
    JaccardSimilarity(Range(window_topics[i - 1].keywords),
                      Range(window_topics[i].keywords))

(***************************************************************************)
(* C21.  Phase detection discards every window with fewer than             *)
(* min_events_per_window events; a transition is emitted for a pair of     *)
(* windows exactly when they are adjacent steps of the sliding window and  *)
(* the Jaccard similarity of their keyword sets is strictly below          *)
(* similarity_threshold; there are at most (retained windows - 1)          *)
(* transitions.                                                            *)
(***************************************************************************)
WindowsWellFormed ==
    /\ \A i \in DOMAIN window_topics :
          /\ window_topics[i].event_count >= phase_params.min_events_per_window
          /\ window_topics[i].event_count
                = Cardinality(EventsOfStep(StepOfWindow(window_topics[i].window_id)))
    /\ Len(transitions) <= Max(Cardinality(RetainedSteps) - 1, 0)

CategoryOrder ==
    <<<<"P", "l", "a", "n", "n", "i", "n", "g">>,
      <<"D", "e", "s", "i", "g", "n">>,
      <<"D", "e", "v", "e", "l", "o", "p", "m", "e", "n", "t">>,
      <<"D", "e", "l", "i", "v", "e", "r", "y">>,
      <<"S", "c", "o", "p", "i", "n", "g">>,
      <<"L", "a", "u", "n", "c", "h">>,
      <<"M", "a", "i", "n", "t", "e", "n", "a", "n", "c", "e">>>>

\* Category c matches the keywords: one of its words occurs in a keyword, whatever
\* the case of the keyword.
CategoryMatches(c, keywords) ==
    \E w \in DOMAIN PhaseCategories[c].words, k \in DOMAIN keywords :
        IsSubstring(PhaseCategories[c].words[w], Lower(keywords[k]))

\* C22: the name returned by _infer_phase_name is the first category, in the order
\* Planning, Design, Development, Delivery, Scoping, Launch, Maintenance, that
\* matches the keywords; with no matching category it is the first keyword
\* title-cased, and "Unknown" for an empty keyword list.
C22_FirstMatchingCategory ==
    infer_name # NoName =>
        /\ \A c \in DOMAIN CategoryOrder :
               ( /\ CategoryMatches(c, infer_keywords)
                 /\ \A d \in 1..(c - 1) : ~CategoryMatches(d, infer_keywords) )
               => infer_name = CategoryOrder[c]
        /\ ( /\ infer_keywords # <<>>
             /\ \A c \in DOMAIN CategoryOrder : ~CategoryMatches(c, infer_keywords) )
           => infer_name = Title(infer_keywords[1])
        /\ infer_keywords = <<>> => infer_name = <<"U", "n", "k", "n", "o", "w", "n">>

\* A call on keywords whose first keyword matches Delivery and whose second
\* matches Design returned Design.
C22_Witness ==
    /\ infer_keywords = <<KwDemo, KwDesign>>
    /\ CategoryMatches(4, infer_keywords)
    /\ CategoryMatches(2, infer_keywords)
    /\ infer_name = CategoryOrder[2]


(***************************************************************************)
(* C23                                                                     *)
(***************************************************************************)
\* The results of the detectors run one after the other, each to its end, on the
\* timeline and the graph.
RECURSIVE SequentialBursts(_, _, _, _)
SequentialBursts(timeline, params, i, accepted) ==
    IF i > Len(timeline) THEN accepted
    ELSE LET window_events == WindowEvents(timeline, i, params)
             accept == /\ MeetsBurstCriteria(window_events, params)
                       /\ ~OverlapsWithExisting(MakeBurst(window_events), accepted)
         IN  SequentialBursts(timeline, params, i + 1,
                              IF accept THEN Append(accepted, MakeBurst(window_events))
                              ELSE accepted)

RECURSIVE SequentialHandoffs(_, _, _)
SequentialHandoffs(rows, params, i) ==
    IF i > Len(rows) THEN <<>>
    ELSE AnalyzeParticipantChange(rows[i - 1], rows[i], params)
         \o SequentialHandoffs(rows, params, i + 1)

RECURSIVE SequentialTransitions(_, _, _)
SequentialTransitions(topics, params, i) ==
    IF i > Len(topics) THEN <<>>
    ELSE LET similarity == JaccardSimilarity(Range(topics[i - 1].keywords),
                                             Range(topics[i].keywords))
         IN  (IF IsPhaseShift(similarity, params)
              THEN <<TransitionRecord(topics[i - 1], topics[i], params)>>
              ELSE <<>>)
             \o SequentialTransitions(topics, params, i + 1)

SequentialOutputs ==
    /\ burst_pc = "done" =>
          bursts = IF timeline_df = <<>> THEN <<>>
                   ELSE SequentialBursts(SortByDate(timeline_df),
                                         CalculateAdaptiveParams(timeline_df), 1, <<>>)
    /\ milestone_pc = "done" =>
          milestone_df =
              WithMilestoneId(
                  SortByDate(DetectDecisionPoints(calendar_events, timeline_df,
                                                  milestone_params, 1)
                             \o DetectDeliverables(calendar_events, 1)
                             \o DetectPlanningPhases(calendar_events, timeline_df, 1)))
    /\ phase_pc = "done" =>
          /\ Len(timeline_df) >= phase_params.min_events_per_window =>
                LET windows == CreateTimeWindows(timeline_df, phase_params)
                IN  Len(windows) >= 2 =>
                       \E keywords \in [1..Len(windows) ->
                                            ObserverKeywordLists \cup {<<>>}] :
                           window_topics = ExtractWindowTopics(windows, keywords, 1)
          /\ transitions = SortByDate(SequentialTransitions(window_topics,
                                                            phase_params, 2))
    /\ influence_pc = "done" =>
          /\ {influence_df[k].participant : k \in DOMAIN influence_df}
                = NodeIds(G_nodes, {"person"})
          /\ person_graph = CreatePersonSubgraph(G_nodes, G_edges,
                                                 NodeIds(G_nodes, {"person"}))
          /\ \A k \in DOMAIN influence_df :
                \E score \in PagerankChoices :
                    influence_df[k] = WithRank([j \in 1..k |->
                        InfluenceRow(influence_df[k].participant, score, timeline_df,
                                     influence_params)])[k]
    /\ handoff_pc = "done" =>
          handoffs = IF Len(timeline_df) < 2 THEN <<>>
                     ELSE SortByDate(SequentialHandoffs(SortByDate(timeline_df),
                                                        handoff_params, 2))

\* The variables of one detector.
DetectorState(detector) ==
    CASE detector = "bursts" -> burstVars
      [] detector = "milestones" -> milestoneVars
      [] detector = "phases" -> phaseVars
      [] detector = "influence" -> influenceVars
      [] detector = "handoffs" -> handoffVars

\* C23: no step of a detector changes the timeline table or the graph, a step of
\* one detector changes nothing of another detector, and whatever the order and
\* the interleaving of the steps, a detector that has ended holds the output of
\* its sequential run on the timeline and the graph.
C23_DetectorsAreReadOnlyObservers ==
    /\ [][graph_pc = "done" =>
             /\ UNCHANGED <<emails, calendar_events, timeline_df, timeline_cols, G_nodes,
                            G_edges, person_nodes, event_nodes, temporal_edges>>
             /\ \A d, e \in Detectors :
                   (DetectorState(d)' # DetectorState(d) /\ d # e)
                   => DetectorState(e)' = DetectorState(e)]_vars
    /\ []SequentialOutputs

\* The handoff detector and the influence mapper have ended with results while the
\* burst detector is in its scan, the phase detector at its window pairs and the
\* milestone detector not started: an order main never takes.
C23_Witness ==
    /\ handoff_pc = "done" /\ handoffs # <<>>
    /\ influence_pc = "done" /\ influence_df # <<>>
    /\ burst_pc = "scan" /\ burst_i = 2
    /\ phase_pc = "topics"
    /\ milestone_pc = "idle"
    /\ SequentialOutputs


(***************************************************************************)
(* C24                                                                     *)
(***************************************************************************)
\* The identities of the records: thread participants, organizers, attendees.
Identities ==
    UNION {emails[k].participants : k \in DOMAIN emails}
    \cup {calendar_events[k].organizer : k \in DOMAIN calendar_events}
    \cup UNION {calendar_events[k].attendees : k \in DOMAIN calendar_events}

TypeOfRelation(relation) ==
    IF relation = "participated" THEN "email" ELSE "meeting"

\* C24: after build_graph the person nodes are exactly the identities with an '@'
\* (the others are dropped, and the build ends all the same), every participated,
\* organized or attended edge goes from a person node to an event node, and
\* every node has exactly one type tag among person, email and meeting.
C24_PersonNodesAndMembershipEdges ==
    graph_pc = "done" =>
        /\ NodeIds(G_nodes, {"person"}) = {p \in Identities : HasAt(p)}
        /\ person_nodes = {p \in Identities : HasAt(p)}
        /\ \A edge \in G_edges :
              edge.relation \in {"participated", "organized", "attended"} =>
                 /\ [id |-> edge.src, type |-> "person"] \in G_nodes
                 /\ [id |-> edge.dst, type |-> TypeOfRelation(edge.relation)] \in G_nodes
                 /\ edge.dst \in event_nodes
        /\ \A n \in G_nodes :
              /\ n.type \in {"person", "email", "meeting"}
              /\ \A m \in G_nodes : m.id = n.id => m.type = n.type

\* A built graph of a thread with an identity without '@' among its participants
\* and a meeting organized by such an identity: the identity is no node and has
\* no edge, the other participant of the thread and of the meeting has its edges.
C24_Witness ==
    /\ graph_pc = "done"
    /\ \E k \in DOMAIN emails : {Bob, Malformed} \subseteq emails[k].participants
    /\ \E k \in DOMAIN calendar_events : calendar_events[k].organizer = Malformed
    /\ \A n \in G_nodes : n.id # Malformed
    /\ \A edge \in G_edges : edge.src # Malformed
    /\ \E edge \in G_edges : edge.src = Bob /\ edge.relation = "participated"
    /\ \E edge \in G_edges : edge.src = Bob /\ edge.relation = "attended"


(***************************************************************************)
(* C25                                                                     *)
(***************************************************************************)
\* The full scan over the date-sorted events: every pair i < j at most 48 hours
\* apart with a participant in common.
FullScanTemporalEdges ==
    LET all_events == SortByDate(LoadedEvents)
    IN  {TemporalEdge(all_events[pair[1]], all_events[pair[2]]) :
            pair \in {pr \in (DOMAIN all_events) \X (DOMAIN all_events) :
                        /\ pr[1] < pr[2]
                        /\ all_events[pr[2]].date - all_events[pr[1]].date <= 48
                        /\ all_events[pr[1]].participants
                              \cap all_events[pr[2]].participants # {}}}

\* The full scan for the window of start index i: every event at index >= i dated
\* within window_hours of event i, in table order.
FullScanWindow(i) ==
    LET Within(event) == event.date <= burst_timeline[i].date + burst_params.window_hours
    IN  SelectSeq(SubSeq(burst_timeline, i, Len(burst_timeline)), Within)

\* C25: the temporal_proximity edges of the built graph are those of the full scan
\* over all pairs of the date-sorted events, and the window detect_bursts grows
\* from a start index is the full scan's window, as is the window of the burst it
\* accepts.
C25_EarlyExitEqualsFullScan ==
    /\ [](graph_pc = "done" =>
            {e \in G_edges : e.relation = "temporal_proximity"} = FullScanTemporalEdges)
    /\ [][burst_pc = "scan" =>
             /\ WindowEvents(burst_timeline, burst_i, burst_params)
                   = FullScanWindow(burst_i)
             /\ bursts' # bursts =>
                   bursts'[Len(bursts')].trigger_events
                     = [k \in DOMAIN FullScanWindow(burst_i) |->
                           FullScanWindow(burst_i)[k].event_id]]_vars

\* Both scans have left early: the graph has a temporal edge and lacks one for a
\* pair more than 48 hours apart that shares a participant, and an accepted burst
\* starts at the first row and ends before the last.
C25_Witness ==
    /\ graph_pc = "done"
    /\ FullScanTemporalEdges # {}
    /\ \E k1, k2 \in DOMAIN LoadedEvents :
          /\ LoadedEvents[k2].date - LoadedEvents[k1].date > 48
          /\ LoadedEvents[k1].participants \cap LoadedEvents[k2].participants # {}
          /\ ~HasTemporalEdge(LoadedEvents[k1].id, LoadedEvents[k2].id)
    /\ bursts # <<>>
    /\ bursts[1].trigger_events[1] = burst_timeline[1].event_id
    /\ bursts[1].event_count < Len(burst_timeline)


(***************************************************************************)
(* C26                                                                     *)
(***************************************************************************)
\* The windows of _create_time_windows before its filter: every window of the
\* loop, whatever its number of events.
CandidateWindows ==
    CreateTimeWindows(timeline_df, [phase_params EXCEPT !.min_events_per_window = 0])

\* C26: with 1 <= step_days <= window_days, every timeline event, the latest one
\* included, is in one or more of the candidate windows that
\* _create_time_windows builds.
C26_CandidateWindowsSpanTimeline ==
    ( /\ phase_pc # "idle"
      /\ Len(timeline_df) >= phase_params.min_events_per_window
      /\ 1 <= phase_params.step_days
      /\ phase_params.step_days <= phase_params.window_days )
    => \A k \in DOMAIN timeline_df :
          \E w \in DOMAIN CandidateWindows :
              \E j \in DOMAIN CandidateWindows[w] :
                  CandidateWindows[w][j] = timeline_df[k]


(***************************************************************************)
(* C30                                                                     *)
(***************************************************************************)
\* (end_date - start_date).days
WindowSpanDays ==
    IF timeline_df = <<>> THEN 0
    ELSE (MaxDate(timeline_df) - MinDate(timeline_df)) \div 24

CeilDiv(a, b) == (a + b - 1) \div b

\* C30: for step_days >= 1, _create_time_windows builds at most
\* ceil(span_days / step_days) + 1 candidate windows, each starting later than the
\* one before and before the latest event date, and none when all events share
\* one timestamp; detect_transitions returns in every run.
C30_WindowLoopTerminates ==
    /\ [](( /\ timeline_df # <<>>
            /\ phase_params.step_days >= 1 )
          => LET candidates == Len(CandidateWindows)
             IN  /\ candidates = Cardinality(CandidateSteps)
                 /\ candidates <= CeilDiv(WindowSpanDays, phase_params.step_days) + 1
                 /\ \A k \in CandidateSteps :
                       /\ CandidateStart(k) < MaxDate(timeline_df)
                       /\ k > 0 => CandidateStart(k) > CandidateStart(k - 1)
                 /\ MaxDate(timeline_df) = MinDate(timeline_df) => candidates = 0)
    /\ <>(phase_pc = "done")

\* detect_transitions has returned on a timeline whose candidate windows are as
\* many as the bound allows, and more than one.
C30_Witness ==
    /\ phase_pc = "done"
    /\ timeline_df # <<>>
    /\ Len(CandidateWindows) >= 2
    /\ Len(CandidateWindows) = CeilDiv(WindowSpanDays, phase_params.step_days) + 1


(***************************************************************************)
(* C27                                                                     *)
(***************************************************************************)
\* departed / prev_count, the rate of an empty previous set being 0.
TurnoverOf(departed_count, prev_count) ==
    IF prev_count > 0 THEN Rat(departed_count, prev_count) ELSE RatZero

C28_ConfidenceInUnitInterval ==
    /\ [][burst_pc = "scan" =>
             /\ IsCandidateAt(burst_i) =>
                   /\ RatLeq(RatZero, CandidateAt(burst_i).confidence)
                   /\ RatLeq(CandidateAt(burst_i).confidence, RatOne)
             /\ burst_pc' \in {"scan", "done"}]_vars
    /\ [](\A k \in DOMAIN bursts :
             /\ RatLeq(RatZero, bursts[k].confidence)
             /\ RatLeq(bursts[k].confidence, RatOne))

\* detect_bursts has returned a burst of confidence 1 whose events are unevenly
\* spread over its participants.
C28_Witness ==
    /\ burst_pc = "done"
    /\ \E k \in DOMAIN bursts :
          /\ RatEq(bursts[k].confidence, RatOne)
          /\ Cardinality(bursts[k].participants) = 3
          /\ Cardinality({j \in DOMAIN bursts[k].event_types :
                             bursts[k].event_types[j] = "email"})
                > Cardinality({j \in DOMAIN bursts[k].event_types :
                                 bursts[k].event_types[j] = "meeting"})


====
